---------------------------- MODULE Spec2Model ----------------------------
(***************************************************************************)
(* Model of the League-of-Legends friend tracker bot: the persistent store *)
(* (storage.py), the update cycles and commands that read-modify-write it  *)
(* (bot.py), and the rank -> MMR estimate, snapshot history and delta      *)
(* tracker (mmrupdate.py, mmr_backfill_week.py).                           *)
(*                                                                         *)
(* Conventions.  A Python dict is a TLA+ function; a missing key is a      *)
(* value outside DOMAIN.  An optional number (None or n) is <<>> or <<n>>. *)
(* A missing or empty string is "".  An ISO timestamp is modelled by the   *)
(* instant it denotes, counted in whole days: every comparison in the code *)
(* goes through datetime.fromisoformat on timezone-aware strings, which    *)
(* compares instants.                                                      *)
(***************************************************************************)
EXTENDS Integers, Sequences, FiniteSets, TLC

VARIABLES
    clock,      \* wall clock (days), read by now_utc_iso / datetime.now
    file,       \* league.json: [players, matches, player_match_index]
    locked,     \* update_lock.locked()
    pc,         \* per update invoker: position in its coroutine
    data,       \* per update invoker: the dict returned by load_data()
    loop,       \* per update invoker: loop variables of the per-player loop
    ops,        \* number of commands and update cycles started so far
    mmrPlayer,  \* a player dict handed to the mmrupdate functions
    mmrOps,     \* number of history-changing calls made on mmrPlayer
    deltaOut,   \* last call of mmr_delta_since: <<queue, start, result>>
    estEntry,   \* a league entry handed to estimate_mmr_from_rank
    estOut,     \* its result: <<"pending">>, or <<"ret", optional number>>
    callIn,     \* arguments of a call of a records.py / analytics.py function
    callOut     \* its result: <<"pending">>, or <<"ret", value>>

vars == <<clock, file, locked, pc, data, loop, ops,
          mmrPlayer, mmrOps, deltaOut, estEntry, estOut, callIn, callOut>>

botVars == <<file, locked, pc, data, loop, ops>>
mmrVars == <<mmrPlayer, mmrOps, deltaOut>>
estVars == <<estEntry, estOut>>
callVars == <<callIn, callOut>>

-----------------------------------------------------------------------------
(* Bounds of the model *)

MaxClock == 1
MaxMmrOps == 2
MaxOps == 3
MaxMatches == 2

-----------------------------------------------------------------------------
(* mmrupdate.py: rank -> MMR mapping *)

None == <<>>
Some(v) == <<v>>

TIER_BASE ==
    [IRON |-> 800, BRONZE |-> 950, SILVER |-> 1100, GOLD |-> 1250,
     PLATINUM |-> 1450, EMERALD |-> 1600, DIAMOND |-> 1750, MASTER |-> 2000,
     GRANDMASTER |-> 2150, CHALLENGER |-> 2300]

DIV_OFFSET_M1 == [IV |-> 0, III |-> 200, II |-> 100, I |-> 300]
DIV_OFFSET == [IV |-> 0, III |-> 100, II |-> 200, I |-> 300]

QUEUE_MAP == [RANKED_SOLO_5x5 |-> "solo", RANKED_FLEX_SR |-> "flex"]

\* dict.get(key, default)
Get(d, key, default) == IF key \in DOMAIN d THEN d[key] ELSE default

\* now_utc_iso() / datetime.now(): the clock moves between two reads
Tick ==
    /\ clock < MaxClock
    /\ clock' = clock + 1

\* A league entry and a profile, as get_player_profile returns them
Entry(q, tier, rank, lp) ==
    [queueType |-> q, tier |-> tier, rank |-> rank, leaguePoints |-> lp]

Profile(entries) == [ranked_entries |-> entries]

\* A league entry is [queueType, tier, rank, leaguePoints]; leaguePoints is
\* optional (entry.get("leaguePoints", 0)).
LeaguePoints(entry) ==
    IF entry.leaguePoints = None THEN 0 ELSE entry.leaguePoints[1]

TierBase(tier) == Get(TIER_BASE, tier, 1000)

DivOffset(div) == Get(DIV_OFFSET, div, 0)

estimate_mmr_from_rank_M1(entry) ==
    IF entry.tier = "" /\ entry.rank = ""
    THEN None
    ELSE Some(TierBase(entry.tier) + DivOffset(entry.rank) + LeaguePoints(entry))

estimate_mmr_from_rank(entry) ==
    IF entry.tier = "" \/ entry.rank = ""
    THEN None
    ELSE Some(TierBase(entry.tier) + DivOffset(entry.rank) + LeaguePoints(entry))

-----------------------------------------------------------------------------
(* mmrupdate.py: snapshot history.  A player's "mmr" is a dict from queue   *)
(* ("solo", "flex") to [current, history]; history is a list of <<ts, val>>.*)

HISTORY_CAP == 500
BACKFILL_DAYS == 7

MmrQueues == {"solo", "flex"}
NoMmr == [q \in {} |-> 0]
EmptyMmrRecord == [current |-> None, history |-> <<>>]

ensure_mmr_struct(player) ==
    [player EXCEPT !.mmr =
        [q \in MmrQueues |-> Get(player.mmr, q, EmptyMmrRecord)]]

\* history[-n:]
LastN(h, n) == IF Len(h) > n THEN SubSeq(h, Len(h) - n + 1, Len(h)) ELSE h

record_mmr_snapshot(player, queue, mmr_value, now) ==
    LET p == ensure_mmr_struct(player)
        h == Append(p.mmr[queue].history, <<now, mmr_value>>)
    IN  [p EXCEPT !.mmr[queue] =
            [current |-> Some(mmr_value),
             history |-> IF Len(h) > HISTORY_CAP
                         THEN LastN(h, HISTORY_CAP)
                         ELSE h]]

\* for entry in profile["ranked_entries"]: ...
RECURSIVE UpdateEntries(_, _, _)
UpdateEntries(player, entries, now) ==
    IF entries = <<>>
    THEN player
    ELSE LET entry == Head(entries)
             q == Get(QUEUE_MAP, entry.queueType, "")
             mmr == estimate_mmr_from_rank(entry)
             p == IF q = "" \/ mmr = None
                  THEN player
                  ELSE record_mmr_snapshot(player, q, mmr[1], now)
         IN  UpdateEntries(p, Tail(entries), now)

update_player_mmr_from_profile(player, profile, now) ==
    UpdateEntries(player, profile.ranked_entries, now)

\* mmr_backfill_week.py, main: the body of the loop over the players, for a
\* player whose profile fetch succeeded.
RECURSIVE BackfillEntries(_, _, _)
BackfillEntries(player, entries, backfill_time) ==
    IF entries = <<>>
    THEN player
    ELSE LET entry == Head(entries)
             q == IF entry.queueType = "RANKED_SOLO_5x5" THEN "solo"
                  ELSE IF entry.queueType = "RANKED_FLEX_SR" THEN "flex"
                  ELSE ""
             value == estimate_mmr_from_rank(entry)
             p == IF q = "" \/ value = None
                  THEN player
                  ELSE [player EXCEPT !.mmr[q] =
                          [current |-> Some(value[1]),
                           history |-> Append(@.history,
                                              <<backfill_time, value[1]>>)]]
         IN  BackfillEntries(p, Tail(entries), backfill_time)

backfill_week_player(player, profile, now) ==
    BackfillEntries(ensure_mmr_struct(player), profile.ranked_entries,
                    now - BACKFILL_DAYS)


-----------------------------------------------------------------------------
(* mmrupdate.py: mmr_delta_since *)

PROMOTION_GUARD == 100

\* for ts, val in history: if fromisoformat(ts) >= start: base_val = val; break
\* The scan of history[lo..hi] in list order (split in halves, left half
\* first, to keep the evaluation depth logarithmic in the history length).
RECURSIVE FirstAtOrAfter(_, _, _, _)
FirstAtOrAfter(history, lo, hi, start) ==
    IF lo > hi
    THEN None
    ELSE IF lo = hi
         THEN IF history[lo][1] >= start THEN Some(history[lo][2]) ELSE None
         ELSE LET mid == (lo + hi) \div 2
                  left == FirstAtOrAfter(history, lo, mid, start)
              IN  IF left # None
                  THEN left
                  ELSE FirstAtOrAfter(history, mid + 1, hi, start)

\* Lines 113-131: None where the function returns 0 early, else Some(delta).
raw_delta_M1(player, queue, start) ==
    IF queue \notin DOMAIN player.mmr
    THEN None
    ELSE LET history == player.mmr[queue].history
             base_val == FirstAtOrAfter(history, 1, Len(history), start)
         IN  IF Len(history) < 2 \/ base_val = None
             THEN None
             ELSE Some(history[Len(history)][2] - history[1][2])

raw_delta(player, queue, start) ==
    IF queue \notin DOMAIN player.mmr
    THEN None
    ELSE LET history == player.mmr[queue].history
             base_val == FirstAtOrAfter(history, 1, Len(history), start)
         IN  IF Len(history) < 2 \/ base_val = None
             THEN None
             ELSE Some(history[Len(history)][2] - base_val[1])

Abs(x) == IF x < 0 THEN -x ELSE x

\* Lines 133-139: the promotion guard.
promotion_guard_M1(delta) ==
    IF delta < 0 /\ Abs(delta) > PROMOTION_GUARD THEN 0 ELSE delta

promotion_guard(delta) ==
    IF delta < 0 /\ Abs(delta) >= PROMOTION_GUARD THEN 0 ELSE delta

mmr_delta_since(player, queue, start) ==
    LET d == raw_delta(player, queue, start)
    IN  IF d = None THEN 0 ELSE promotion_guard(d[1])

-----------------------------------------------------------------------------
(* storage.py: the persistent store.  league.json is a dict with the keys   *)
(* players, matches, player_match_index and last_update_utc (the unused     *)
(* "season" key is left out); a missing file is the empty dict.            *)

StoreKeys == {"players", "matches", "player_match_index", "last_update_utc"}
EmptyDict == [k \in {} |-> 0]

StoreDefault(k) == IF k = "last_update_utc" THEN None ELSE EmptyDict

\* data.setdefault(key, default) for each key of the schema
load_data(f) == [k \in StoreKeys |-> Get(f, k, StoreDefault(k))]

\* json.dump(data) + os.replace: the file becomes the dict
save_data(d) == d

\* d[key] = value
Put(d, key, value) ==
    [k \in DOMAIN d \cup {key} |-> IF k = key THEN value ELSE d[k]]

NoPlayer == [puuid |-> "", encrypted_summoner_id |-> None,
             added_at |-> None, mmr |-> NoMmr]

\* The new entry is built from the arguments and from the existing entry's
\* encrypted_summoner_id and added_at only: it has no "mmr" key.
upsert_player(d, riot_id, puuid, encrypted_summoner_id, now) ==
    LET existing == Get(d.players, riot_id, NoPlayer)
        entry == [puuid |-> puuid,
                  encrypted_summoner_id |->
                      IF encrypted_summoner_id # None
                      THEN encrypted_summoner_id
                      ELSE existing.encrypted_summoner_id,
                  added_at |-> IF existing.added_at # None
                               THEN existing.added_at
                               ELSE Some(now),
                  mmr |-> NoMmr]
    IN  [d EXCEPT
            !.players = Put(@, riot_id, entry),
            !.player_match_index =
                IF riot_id \in DOMAIN @ THEN @ ELSE Put(@, riot_id, <<>>)]

-----------------------------------------------------------------------------
(* The world the bot talks to: the Riot API *)

RiotIds == {"A#1", "B#1"}
RiotOrder == <<"A#1", "B#1">>
Puuid(riot_id) == IF riot_id = "A#1" THEN "puuid-A" ELSE "puuid-B"

\* The matches the tracked players have played
Mids == {1, 2}

\* get_match(mid): the match JSON.  The API may answer two fetches of one id
\* with different documents (rev tells them apart).
Revisions == {1, 2}
MatchJson(mid, rev) == [matchId |-> mid, rev |-> rev]

\* get_match raises, returns a match that started before the cutoff, or
\* returns a match at or after the cutoff (or with no start time).
FetchOutcomes == {"fail", "old", "ok"}

RECURSIVE Descending(_)
Descending(S) ==
    IF S = {}
    THEN <<>>
    ELSE LET m == CHOOSE x \in S : \A y \in S : y <= x
         IN  <<m>> \o Descending(S \ {m})

\* get_match_ids_by_puuid returns the ids of some matches, most recent first
IdLists == { Descending(S) : S \in SUBSET Mids }

\* get_player_profile(...)["ranked_entries"]
BotProfiles ==
    { Profile(<<>>),
      Profile(<<Entry("RANKED_SOLO_5x5", "GOLD", "I", Some(0))>>) }

-----------------------------------------------------------------------------
(* bot.py: the update cycles.  Invokers are the commands updaterecords,     *)
(* dailyrecords and updateseason and the hourly task; each is a coroutine   *)
(* that runs atomically between two awaits.                                 *)

Invokers == {"updaterecords", "dailyrecords", "hourly", "updateseason"}
IsSeason(proc) == proc = "updateseason"
\* ctx is passed by updaterecords and updateseason only
HasCtx(proc) == proc \in {"updaterecords", "updateseason"}
\* a message is awaited after save_data, before the lock is released (the
\* hourly task's notification channel is taken to exist)
SendsResult(proc) == proc \in {"updaterecords", "updateseason", "hourly"}

IdleLoop == [players |-> <<>>, known |-> {}, todo |-> <<>>, page |-> 0]
IdleData == load_data(EmptyDict)

\* for riot_id, p in data["players"].items(): the keys in iteration order
PlayerOrder(players) ==
    SelectSeq(RiotOrder, LAMBDA r : r \in DOMAIN players)

SetLocal(proc, newpc, d, l) ==
    /\ pc' = [pc EXCEPT ![proc] = newpc]
    /\ data' = [data EXCEPT ![proc] = d]
    /\ loop' = [loop EXCEPT ![proc] = l]

\* leaving "async with update_lock"
Release(proc) ==
    /\ locked' = FALSE
    /\ SetLocal(proc, "idle", IdleData, IdleLoop)

\* if update_lock.locked(): [await ctx.send("Update already running.")]; return
\* With ctx the coroutine awaits the message before it returns; without ctx
\* it returns at once.
UpdateBusy(proc) ==
    /\ pc[proc] = "idle"
    /\ locked
    /\ ops < MaxOps
    /\ ops' = ops + 1
    /\ pc' = [pc EXCEPT ![proc] = IF HasCtx(proc) THEN "busy" ELSE "idle"]
    /\ UNCHANGED <<clock, file, locked, data, loop, mmrVars, estVars, callVars>>

UpdateBusyReturn(proc) ==
    /\ pc[proc] = "busy"
    /\ pc' = [pc EXCEPT ![proc] = "idle"]
    /\ UNCHANGED <<clock, file, locked, data, loop, ops, mmrVars, estVars, callVars>>

\* not update_lock.locked()
LockFree_M1 == TRUE
LockFree == ~locked

\* data = load_data(); if not data.get("players"): return
\* Without ctx nothing is awaited between taking the lock and load_data.
UpdateAcquire(proc) ==
    /\ pc[proc] = "idle"
    /\ LockFree
    /\ ops < MaxOps
    /\ ops' = ops + 1
    /\ IF HasCtx(proc)
       THEN /\ locked' = TRUE
            /\ SetLocal(proc, "locked", IdleData, IdleLoop)
       ELSE LET d == load_data(file)
            IN  IF DOMAIN d.players = {}
                THEN UNCHANGED <<locked, pc, data, loop>>
                ELSE /\ locked' = TRUE
                     /\ SetLocal(proc, "player", d,
                                 [IdleLoop EXCEPT !.players = PlayerOrder(d.players)])
    /\ UNCHANGED <<clock, file, mmrVars, estVars, callVars>>

UpdateLoad(proc) ==
    /\ pc[proc] = "locked"
    /\ LET d == load_data(file)
       IN  IF DOMAIN d.players = {}
           THEN SetLocal(proc, "reply", d, IdleLoop)
           ELSE SetLocal(proc, "player", d,
                         [IdleLoop EXCEPT !.players = PlayerOrder(d.players)])
    /\ UNCHANGED <<clock, file, locked, ops, mmrVars, estVars, callVars>>

\* mid in data["matches"]
IsStored_M1(d, mid) == FALSE
IsStored(d, mid) == mid \in DOMAIN d.matches

\* The ids of the index with no stored match JSON, in list order
MissingIds(d, riot_id) ==
    SelectSeq(d.player_match_index[riot_id], LAMBDA mid : ~IsStored(d, mid))

\* data["matches"][mid] = m
FillMissing(d, mid, m) == [d EXCEPT !.matches = Put(@, mid, m)]

SeqToSet(q) == { q[i] : i \in 1..Len(q) }

\* Head of the per-player loop: setdefault of the index, known ids, and the
\* list of ids to fill.  After the last player: MMR update (incremental) or
\* the final save (season).
UpdatePlayer(proc) ==
    /\ pc[proc] = "player"
    /\ IF loop[proc].players = <<>>
       THEN SetLocal(proc, IF IsSeason(proc) THEN "save" ELSE "mmr",
                     data[proc], loop[proc])
       ELSE LET riot_id == Head(loop[proc].players)
                d == [data[proc] EXCEPT !.player_match_index =
                         IF riot_id \in DOMAIN @ THEN @ ELSE Put(@, riot_id, <<>>)]
            IN  SetLocal(proc, "fill", d,
                         [loop[proc] EXCEPT
                             !.known = SeqToSet(d.player_match_index[riot_id]),
                             !.todo = MissingIds(d, riot_id),
                             !.page = 0])
    /\ UNCHANGED <<clock, file, locked, ops, mmrVars, estVars, callVars>>

\* "Fill missing match JSON": one get_match per id of the index whose JSON
\* is not stored; a failed or too old match is skipped.
UpdateFillMissing(proc) ==
    /\ pc[proc] = "fill"
    /\ IF loop[proc].todo = <<>>
       THEN SetLocal(proc, "ids", data[proc], loop[proc])
       ELSE LET mid == Head(loop[proc].todo)
            IN  \E outcome \in FetchOutcomes, rev \in Revisions :
                   SetLocal(proc, "fill",
                            IF outcome = "ok"
                            THEN FillMissing(data[proc], mid, MatchJson(mid, rev))
                            ELSE data[proc],
                            [loop[proc] EXCEPT !.todo = Tail(@)])
    /\ UNCHANGED <<clock, file, locked, ops, mmrVars, estVars, callVars>>

\* The end of one player's iteration.  updateseason saves after each player
\* (save_data(data) at the end of the for body).
NextPlayer(proc) ==
    /\ SetLocal(proc, "player", data[proc],
                [loop[proc] EXCEPT !.players = Tail(@), !.todo = <<>>, !.known = {}])
    /\ file' = IF IsSeason(proc) THEN save_data(data[proc]) ELSE file

PAGE_SIZE == 100

\* get_match_ids_by_puuid(puuid, count, None, start): at most count ids,
\* most recent first, skipping the first start ones.
Page(ids, count, start) ==
    SubSeq(ids, start + 1, IF Len(ids) < start + count THEN Len(ids) ELSE start + count)

\* get_match_ids_by_puuid: 25 ids (incremental), or the page of PAGE_SIZE
\* ids at start_idx (season; an empty page ends the paging).
UpdateFetchIds(proc) ==
    /\ pc[proc] = "ids"
    /\ \E failed \in BOOLEAN, ids \in IdLists :
          IF failed
          THEN NextPlayer(proc)
          ELSE LET page == IF IsSeason(proc)
                           THEN Page(ids, PAGE_SIZE, loop[proc].page * PAGE_SIZE)
                           ELSE Page(ids, 25, 0)
               IN  IF IsSeason(proc) /\ page = <<>>
                   THEN NextPlayer(proc)
                   ELSE /\ SetLocal(proc, "scan", data[proc],
                                    [loop[proc] EXCEPT !.todo = page])
                        /\ UNCHANGED file
    /\ UNCHANGED <<clock, locked, ops, mmrVars, estVars, callVars>>

\* data["player_match_index"][riot_id].append(mid)
AppendIndex(d, riot_id, mid) ==
    [d EXCEPT !.player_match_index[riot_id] = Append(@, mid)]

\* A new match of the incremental cycle (bot.py 135-137): the match is
\* stored and its id appended.
StoreNewIncremental(d, riot_id, mid, m, known) ==
    AppendIndex([d EXCEPT !.matches = Put(@, mid, m)], riot_id, mid)

\* A new match of the season backfill (bot.py 618-621): the id is appended
\* only if it is not known.
StoreNewSeason(d, riot_id, mid, m, known) ==
    LET d1 == [d EXCEPT !.matches = Put(@, mid, m)]
    IN  IF mid \notin known THEN AppendIndex(d1, riot_id, mid) ELSE d1

\* A match that is already stored (bot.py 118-122, 600-604)
LinkStored(d, riot_id, mid, known) ==
    IF mid \notin known THEN AppendIndex(d, riot_id, mid) ELSE d

\* One iteration of "for mid in match_ids".
UpdateScan(proc) ==
    /\ pc[proc] = "scan"
    /\ LET l == loop[proc]
           d == data[proc]
           riot_id == Head(l.players)
       IN  IF l.todo = <<>>
           THEN IF IsSeason(proc)
                THEN /\ SetLocal(proc, "ids", d, [l EXCEPT !.page = @ + 1])
                     /\ UNCHANGED file
                ELSE NextPlayer(proc)
           ELSE LET mid == Head(l.todo)
                    rest == [l EXCEPT !.todo = Tail(@), !.known = @ \cup {mid}]
                IN  IF IsStored(d, mid)
                    THEN /\ SetLocal(proc, "scan",
                                     LinkStored(d, riot_id, mid, l.known), rest)
                         /\ UNCHANGED file
                    ELSE \E outcome \in FetchOutcomes, rev \in Revisions :
                            CASE outcome = "fail" ->
                                   /\ SetLocal(proc, "scan", d, [l EXCEPT !.todo = Tail(@)])
                                   /\ UNCHANGED file
                              [] outcome = "old" -> NextPlayer(proc)
                              [] outcome = "ok" ->
                                   /\ SetLocal(proc, "scan",
                                        IF IsSeason(proc)
                                        THEN StoreNewSeason(d, riot_id, mid,
                                                 MatchJson(mid, rev), l.known)
                                        ELSE StoreNewIncremental(d, riot_id, mid,
                                                 MatchJson(mid, rev), l.known),
                                        rest)
                                   /\ UNCHANGED file
    /\ UNCHANGED <<clock, locked, ops, mmrVars, estVars, callVars>>

\* update_all_mmrs(data): a profile fetch per player; a failed fetch
\* (failed[r]) skips the player.
update_all_mmrs(d, fetched, failed, now) ==
    [d EXCEPT !.players =
        [r \in DOMAIN @ |->
            IF failed[r]
            THEN @[r]
            ELSE update_player_mmr_from_profile(@[r], fetched[r], now)]]

UpdateMmrs(proc) ==
    /\ pc[proc] = "mmr"
    /\ \E fetched \in [DOMAIN data[proc].players -> BotProfiles],
          failed \in [DOMAIN data[proc].players -> BOOLEAN] :
          SetLocal(proc, "save",
                   update_all_mmrs(data[proc], fetched, failed, clock),
                   loop[proc])
    /\ UNCHANGED <<clock, file, locked, ops, mmrVars, estVars, callVars>>

\* data["last_update_utc"] = now_utc_iso(); save_data(data); the lock is
\* released at once when no message follows.
UpdateSave(proc) ==
    /\ pc[proc] = "save"
    /\ LET d == [data[proc] EXCEPT !.last_update_utc = Some(clock)]
       IN  /\ file' = save_data(d)
           /\ IF SendsResult(proc)
              THEN /\ SetLocal(proc, "reply", d, loop[proc])
                   /\ UNCHANGED locked
              ELSE Release(proc)
    /\ UNCHANGED <<clock, ops, mmrVars, estVars, callVars>>

\* await ctx.send(...) / ch.send(...), then the end of "async with"
UpdateReply(proc) ==
    /\ pc[proc] = "reply"
    /\ Release(proc)
    /\ UNCHANGED <<clock, file, ops, mmrVars, estVars, callVars>>

-----------------------------------------------------------------------------
(* bot.py: addsummoner and playerinfo.  Each awaits get_player_profile and  *)
(* then runs load_data ... save_data without awaiting.                      *)

addsummoner(f, riot_key, info, now) ==
    LET d == upsert_player(load_data(f), riot_key, info.puuid, None, now)
    IN  save_data([d EXCEPT !.players[riot_key] =
                      update_player_mmr_from_profile(@, info, now)])

playerinfo(f, riot_key, info, now) ==
    LET d == load_data(f)
    IN  save_data(IF riot_key \in DOMAIN d.players
                  THEN [d EXCEPT !.players[riot_key] =
                           update_player_mmr_from_profile(@, info, now)]
                  ELSE d)

Info(riot_key, profile) ==
    [puuid |-> Puuid(riot_key), ranked_entries |-> profile.ranked_entries]

AddSummoner ==
    /\ ops < MaxOps
    /\ ops' = ops + 1
    /\ \E riot_key \in RiotIds, profile \in BotProfiles :
          file' = addsummoner(file, riot_key, Info(riot_key, profile), clock)
    /\ UNCHANGED <<clock, locked, pc, data, loop, mmrVars, estVars, callVars>>

PlayerInfo ==
    /\ ops < MaxOps
    /\ ops' = ops + 1
    /\ \E riot_key \in RiotIds, profile \in BotProfiles :
          file' = playerinfo(file, riot_key, Info(riot_key, profile), clock)
    /\ UNCHANGED <<clock, locked, pc, data, loop, mmrVars, estVars, callVars>>

-----------------------------------------------------------------------------
(* Inputs of the MMR specification *)

\* Profiles as get_player_profile returns them: at most one entry per queue
\* type, other queue types and unranked entries (no tier, no rank) included.
\* GOLD I 0 LP = 1550, GOLD I 10 LP = 1560, PLATINUM IV 0 LP = 1450,
\* PLATINUM IV 60 LP = 1510, SILVER II 20 LP = 1320.
MmrProfiles ==
    { Profile(<<Entry("RANKED_SOLO_5x5", "GOLD", "I", Some(0))>>),
      Profile(<<Entry("RANKED_SOLO_5x5", "GOLD", "I", Some(10))>>),
      Profile(<<Entry("RANKED_SOLO_5x5", "PLATINUM", "IV", Some(0))>>),
      Profile(<<Entry("RANKED_SOLO_5x5", "PLATINUM", "IV", Some(60))>>),
      Profile(<<Entry("RANKED_TFT", "GOLD", "I", Some(5)),
                Entry("RANKED_FLEX_SR", "SILVER", "II", Some(20)),
                Entry("RANKED_SOLO_5x5", "", "", None)>>) }

\* A solo history of n snapshots taken on day 0 (GOLD IV, 0..99 LP).
PrefilledHistory(n) == [i \in 1..n |-> <<0, 1250 + (i % 100)>>]

PrefilledPlayer(n) ==
    [mmr |-> [q \in MmrQueues |->
                IF q = "solo" /\ n > 0
                THEN [current |-> Some(PrefilledHistory(n)[n][2]),
                      history |-> PrefilledHistory(n)]
                ELSE EmptyMmrRecord]]

NoDelta == <<"", 0, 0>>

DeltaStarts == {0 - BACKFILL_DAYS, 0, 1, MaxClock + 1}

-----------------------------------------------------------------------------
(* The MMR specification: one player dict under update_player_mmr_from_     *)
(* profile, the week backfill, and mmr_delta_since.                        *)

BotIdle ==
    /\ file = EmptyDict
    /\ locked = FALSE
    /\ pc = [proc \in Invokers |-> "idle"]
    /\ data = [proc \in Invokers |-> IdleData]
    /\ loop = [proc \in Invokers |-> IdleLoop]
    /\ ops = 0

EstIdle ==
    /\ estEntry = Entry("", "", "", None)
    /\ estOut = <<"pending">>

CallIdle ==
    /\ callIn = <<>>
    /\ callOut = <<"pending">>

MmrIdle ==
    /\ mmrPlayer = [mmr |-> NoMmr]
    /\ mmrOps = 0
    /\ deltaOut = NoDelta

InitMMR ==
    /\ clock = 0
    /\ mmrPlayer \in {[mmr |-> NoMmr], PrefilledPlayer(HISTORY_CAP - 1)}
    /\ mmrOps = 0
    /\ deltaOut = NoDelta
    /\ BotIdle
    /\ EstIdle
    /\ CallIdle

MmrTick ==
    /\ deltaOut = NoDelta
    /\ Tick
    /\ UNCHANGED <<botVars, mmrVars, estVars, callVars>>

MmrUpdateFromProfile ==
    /\ deltaOut = NoDelta
    /\ mmrOps < MaxMmrOps
    /\ \E profile \in MmrProfiles :
          mmrPlayer' = update_player_mmr_from_profile(mmrPlayer, profile, clock)
    /\ mmrOps' = mmrOps + 1
    /\ UNCHANGED <<clock, deltaOut, botVars, estVars, callVars>>

MmrBackfillWeek ==
    /\ deltaOut = NoDelta
    /\ mmrOps < MaxMmrOps
    /\ \E profile \in MmrProfiles :
          mmrPlayer' = backfill_week_player(mmrPlayer, profile, clock)
    /\ mmrOps' = mmrOps + 1
    /\ UNCHANGED <<clock, deltaOut, botVars, estVars, callVars>>

\* The callers (dailyrecords, weeklyrecords) call mmr_delta_since(player, q,
\* start.isoformat()) on a loaded player and use the result at once.
MmrDeltaSince ==
    /\ deltaOut = NoDelta
    /\ \E queue \in MmrQueues, start \in DeltaStarts :
          deltaOut' = <<queue, start, mmr_delta_since(mmrPlayer, queue, start)>>
    /\ UNCHANGED <<clock, mmrPlayer, mmrOps, botVars, estVars, callVars>>

MmrDeltaUsed ==
    /\ deltaOut # NoDelta
    /\ deltaOut' = NoDelta
    /\ UNCHANGED <<clock, mmrPlayer, mmrOps, botVars, estVars, callVars>>

NextMMR ==
    \/ MmrDeltaUsed
    \/ MmrTick
    \/ MmrUpdateFromProfile
    \/ MmrBackfillWeek
    \/ MmrDeltaSince

SpecMMR == InitMMR /\ [][NextMMR]_vars

-----------------------------------------------------------------------------
(* The estimate specification: estimate_mmr_from_rank on one league entry. *)

EstTiers ==
    {"", "IRON", "BRONZE", "SILVER", "GOLD", "PLATINUM", "EMERALD", "DIAMOND",
     "MASTER", "GRANDMASTER", "CHALLENGER", "UNRANKED"}
EstDivisions == {"", "IV", "III", "II", "I", "V"}
EstLeaguePoints == {None, Some(0), Some(1), Some(50), Some(99), Some(100)}

InitEst ==
    /\ clock = 0
    /\ estEntry \in { Entry("RANKED_SOLO_5x5", t, d, lp) :
                        t \in EstTiers, d \in EstDivisions,
                        lp \in EstLeaguePoints }
    /\ estOut = <<"pending">>
    /\ BotIdle
    /\ MmrIdle
    /\ CallIdle

EstEstimate ==
    /\ estOut = <<"pending">>
    /\ estOut' = <<"ret", estimate_mmr_from_rank(estEntry)>>
    /\ UNCHANGED <<clock, estEntry, botVars, mmrVars, callVars>>

NextEst == EstEstimate

SpecEst == InitEst /\ [][NextEst]_vars

-----------------------------------------------------------------------------
(* The bot specification.  The bot starts on whatever league.json holds: no *)
(* file, or a store written earlier whose index names a match with no       *)
(* stored JSON (the state the "fill missing match JSON" passes of both      *)
(* update cycles are written for).                                          *)

LegacyStore ==
    [players |-> Put(EmptyDict, "A#1",
                     [NoPlayer EXCEPT !.puuid = Puuid("A#1"), !.added_at = Some(0)]),
     matches |-> EmptyDict,
     player_match_index |-> Put(EmptyDict, "A#1", <<1>>),
     last_update_utc |-> None]

Init ==
    /\ clock = 0
    /\ file \in {EmptyDict, LegacyStore}
    /\ locked = FALSE
    /\ pc = [proc \in Invokers |-> "idle"]
    /\ data = [proc \in Invokers |-> IdleData]
    /\ loop = [proc \in Invokers |-> IdleLoop]
    /\ ops = 0
    /\ MmrIdle
    /\ EstIdle
    /\ CallIdle

Next ==
    \/ AddSummoner
    \/ PlayerInfo
    \/ \E proc \in Invokers :
          \/ UpdateBusy(proc)
          \/ UpdateBusyReturn(proc)
          \/ UpdateAcquire(proc)
          \/ UpdateLoad(proc)
          \/ UpdatePlayer(proc)
          \/ UpdateFillMissing(proc)
          \/ UpdateFetchIds(proc)
          \/ UpdateScan(proc)
          \/ UpdateMmrs(proc)
          \/ UpdateSave(proc)
          \/ UpdateReply(proc)

Spec == Init /\ [][Next]_vars

-----------------------------------------------------------------------------
(* Properties of the store and the update cycles (Spec)                    *)

Store == load_data(file)

NoDuplicates(q) == \A i, j \in 1..Len(q) : i # j => q[i] # q[j]

\* C1: after any sequence of incremental update cycles and season backfills
\* (match-detail fetches may fail and later succeed) no player's match index
\* holds the same match id twice.
C1_IndexNoDuplicates ==
    \A r \in DOMAIN Store.player_match_index :
        NoDuplicates(Store.player_match_index[r])

\* C2: no save_data overwrites a change another command saved after the
\* saver's load_data: a player stored by a completed addsummoner stays in
\* the store.
C2_NoLostUpdate ==
    [][\A r \in DOMAIN load_data(file).players :
          r \in DOMAIN load_data(file').players]_vars

\* An invoker is inside "async with update_lock"
InCycle(proc) == pc[proc] \notin {"idle", "busy"}

\* C3: at most one update cycle is inside its critical section, and an
\* invocation that finds the lock held returns without loading, modifying
\* or saving the store.
C3_UpdateLockExclusion ==
    [][/\ \A p, q \in Invokers : (InCycle(p)' /\ InCycle(q)') => p = q
       /\ \A p \in Invokers :
             ((locked \/ pc[p] = "busy") /\ ~InCycle(p)) =>
                 /\ ~InCycle(p)'
                 /\ data'[p] = data[p]
                 /\ pc'[p] # pc[p] => file' = file]_vars

\* updaterecords was rejected while updateseason holds the lock with the
\* store loaded.
C3_Witness ==
    /\ locked
    /\ pc["updaterecords"] = "busy"
    /\ pc["updateseason"] = "scan"
    /\ DOMAIN data["updateseason"].players # {}

\* old survives in new: entries are only appended, and dropped only from
\* the front of a history that is at the cap.
HistoryKept(old, new) ==
    \E k \in 0..Len(old) :
        /\ k > 0 => Len(new) = HISTORY_CAP
        /\ Len(new) >= Len(old) - k
        /\ SubSeq(new, 1, Len(old) - k) = SubSeq(old, k + 1, Len(old))

\* C4: a player's MMR history is append-only across all operations, and the
\* player's entry is never deleted.
C4_MmrHistoryAppendOnly ==
    [][\A r \in DOMAIN load_data(file).players :
          /\ r \in DOMAIN load_data(file').players
          /\ \A q \in DOMAIN load_data(file).players[r].mmr :
                /\ q \in DOMAIN load_data(file').players[r].mmr
                /\ HistoryKept(load_data(file).players[r].mmr[q].history,
                               load_data(file').players[r].mmr[q].history)]_vars

\* old survives in new: every stored id is still stored, with the same record
MatchesKept(old, new) ==
    \A mid \in DOMAIN old : mid \in DOMAIN new /\ new[mid] = old[mid]

\* C12: match records are insert-only: no update cycle replaces, mutates or
\* removes the record of a match id that is in the match store, neither in
\* the file nor in the dict a running cycle works on.
C12_MatchesInsertOnly ==
    [][/\ MatchesKept(load_data(file).matches, load_data(file').matches)
       /\ \A p \in Invokers :
             (InCycle(p) /\ InCycle(p)') =>
                 MatchesKept(data[p].matches, data'[p].matches)]_vars

\* A second update cycle has loaded the stored match 1 and inserted match 2
\* next to it.
C12_Witness ==
    \E p \in Invokers :
        /\ pc[p] = "scan"
        /\ DOMAIN load_data(file).matches = {1}
        /\ DOMAIN data[p].matches = {1, 2}
        /\ data[p].matches[1] = load_data(file).matches[1]

-----------------------------------------------------------------------------
(* Properties of the MMR history and the delta tracker (SpecMMR, SpecEst)  *)

Histories == { mmrPlayer.mmr[q] : q \in DOMAIN mmrPlayer.mmr }

\* C5: after any sequence of MMR updates the history of a queue holds at
\* most HISTORY_CAP entries and current is the rating of its last entry.
C5_HistoryCapped ==
    \A r \in Histories :
        /\ Len(r.history) <= HISTORY_CAP
        /\ r.history # <<>> => r.current = Some(r.history[Len(r.history)][2])

\* C6: in every reachable state the timestamps of a history are
\* non-decreasing in list order.
C6_TimestampsNonDecreasing ==
    \A r \in Histories :
        \A i \in 1..(Len(r.history) - 1) :
            r.history[i][1] <= r.history[i + 1][1]

\* The call recorded in deltaOut, read off the player without the code's scan.
DeltaHistory == Get(mmrPlayer.mmr, deltaOut[1], EmptyMmrRecord).history
DeltaInWindow ==
    { i \in 1..Len(DeltaHistory) : DeltaHistory[i][1] >= deltaOut[2] }
DeltaBaseline == CHOOSE i \in DeltaInWindow : \A j \in DeltaInWindow : i <= j
DeltaExpected ==
    DeltaHistory[Len(DeltaHistory)][2] - DeltaHistory[DeltaBaseline][2]
DeltaHasBaseline == Len(DeltaHistory) >= 2 /\ DeltaInWindow # {}

\* C7: mmr_delta_since returns 0 with no record, fewer than 2 points or no
\* entry at or after start; otherwise its raw delta is the last rating minus
\* the rating of the first entry in list order whose timestamp is >= start.
C7_DeltaBaseline ==
    deltaOut # NoDelta =>
        IF DeltaHasBaseline
        THEN raw_delta(mmrPlayer, deltaOut[1], deltaOut[2]) = Some(DeltaExpected)
        ELSE /\ raw_delta(mmrPlayer, deltaOut[1], deltaOut[2]) = None
             /\ deltaOut[3] = 0

\* A call whose baseline is not the first entry of the history and whose
\* result is not 0.
C7_Witness ==
    /\ deltaOut # NoDelta
    /\ DeltaHasBaseline
    /\ DeltaBaseline > 1
    /\ deltaOut[3] # 0
    /\ deltaOut[3] = DeltaExpected

\* C8: promotion guard: the result is 0 when the raw delta is <= -100, the
\* raw delta otherwise, and so always greater than -100.
C8_PromotionGuard ==
    deltaOut # NoDelta =>
        /\ deltaOut[3] > 0 - PROMOTION_GUARD
        /\ DeltaHasBaseline =>
              deltaOut[3] = IF DeltaExpected <= 0 - PROMOTION_GUARD
                            THEN 0
                            ELSE DeltaExpected

\* A call whose raw delta is exactly -100 and is suppressed.
C8_Witness ==
    /\ deltaOut # NoDelta
    /\ DeltaHasBaseline
    /\ DeltaExpected = 0 - PROMOTION_GUARD
    /\ deltaOut[3] = 0

TierOrder ==
    <<"IRON", "BRONZE", "SILVER", "GOLD", "PLATINUM", "EMERALD", "DIAMOND",
      "MASTER", "GRANDMASTER", "CHALLENGER">>

\* base is the estimate of (T, I, lp) and latest the estimate of (the tier
\* above T, IV, lp2), with lp and lp2 in 0..99.
IsPromotionPair(base, latest) ==
    \E k \in 1..(Len(TierOrder) - 1) :
        LET lp == base - TIER_BASE[TierOrder[k]] - DIV_OFFSET["I"]
            lp2 == latest - TIER_BASE[TierOrder[k + 1]] - DIV_OFFSET["IV"]
        IN  /\ lp \in 0..99
            /\ lp2 \in 0..99
            /\ Some(base) = estimate_mmr_from_rank(
                   Entry("RANKED_SOLO_5x5", TierOrder[k], "I", Some(lp)))
            /\ Some(latest) = estimate_mmr_from_rank(
                   Entry("RANKED_SOLO_5x5", TierOrder[k + 1], "IV", Some(lp2)))

\* C9: when the baseline is a division-I rating and the latest entry the
\* division-IV rating of the next tier, the returned delta is never negative.
C9_PromotionNeverNegative ==
    (deltaOut # NoDelta /\ DeltaHasBaseline) =>
        (IsPromotionPair(DeltaHistory[DeltaBaseline][2],
                         DeltaHistory[Len(DeltaHistory)][2])
            => deltaOut[3] >= 0)

\* C10: estimate_mmr_from_rank returns null when tier or division is missing,
\* else tier base (1000 if unknown) + division offset (0 if unknown) + LP.
C10_Estimate ==
    estOut # <<"pending">> =>
        LET e == estEntry
            base == IF e.tier \in DOMAIN TIER_BASE THEN TIER_BASE[e.tier] ELSE 1000
            offset == IF e.rank \in DOMAIN DIV_OFFSET THEN DIV_OFFSET[e.rank] ELSE 0
            lp == IF e.leaguePoints = None THEN 0 ELSE e.leaguePoints[1]
        IN  /\ estOut[1] = "ret"
            /\ (e.tier = "" \/ e.rank = "") => estOut[2] = None
            /\ (e.tier # "" /\ e.rank # "") => estOut[2] = Some(base + offset + lp)

\* An entry of an unknown tier and an unknown division: 1000 + 0 + 50.
C10_Witness ==
    /\ estEntry.tier = "UNRANKED"
    /\ estEntry.rank = "V"
    /\ estOut = <<"ret", Some(1050)>>

\* Divisions from the lowest to the highest
DivisionOrder == <<"IV", "III", "II", "I">>
DivisionRank(div) == CHOOSE i \in 1..Len(DivisionOrder) : DivisionOrder[i] = div
IsDivision(div) == \E i \in 1..Len(DivisionOrder) : DivisionOrder[i] = div

\* C11: for a fixed tier the estimate at 0 LP strictly increases from
\* division IV to III to II to I, and for a fixed tier and division a larger
\* league-points value gives a strictly larger estimate.
C11_EstimateMonotone ==
    (estOut # <<"pending">> /\ estEntry.tier # "" /\ estEntry.rank # "") =>
        /\ estOut[2] # None
        /\ \A d \in EstDivisions :
              (/\ estEntry.leaguePoints = Some(0)
               /\ IsDivision(estEntry.rank) /\ IsDivision(d)
               /\ DivisionRank(estEntry.rank) < DivisionRank(d)) =>
                  estOut[2][1] <
                      estimate_mmr_from_rank([estEntry EXCEPT !.rank = d])[1]
        /\ \A lp \in EstLeaguePoints :
              (/\ estEntry.leaguePoints # None /\ lp # None
               /\ estEntry.leaguePoints[1] < lp[1]) =>
                  estOut[2][1] <
                      estimate_mmr_from_rank([estEntry EXCEPT !.leaguePoints = lp])[1]

\* GOLD III at 0 LP has been estimated: 1250 + 100 + 0, below GOLD II and
\* GOLD I at 0 LP and below GOLD III at any larger LP.
C11_Witness ==
    /\ estEntry.tier = "GOLD"
    /\ estEntry.rank = "III"
    /\ estEntry.leaguePoints = Some(0)
    /\ estOut = <<"ret", Some(1350)>>

-----------------------------------------------------------------------------
(* records.py: the daily window.  A local datetime is the wall-clock record *)
(* [date, hour, minute, second, microsecond] of one time zone (LOCAL_TZ);   *)
(* two datetimes of the same zone compare by their wall-clock fields.       *)

DateTime(date, hour, minute, second, microsecond) ==
    [date |-> date, hour |-> hour, minute |-> minute, second |-> second,
     microsecond |-> microsecond]

SecondOfDay(dt) == (dt.hour * 60 + dt.minute) * 60 + dt.second

\* a < b
DtLess(a, b) ==
    \/ a.date < b.date
    \/ /\ a.date = b.date
       /\ \/ SecondOfDay(a) < SecondOfDay(b)
          \/ /\ SecondOfDay(a) = SecondOfDay(b)
             /\ a.microsecond < b.microsecond

\* dt + timedelta(days=n)
PlusDays(dt, n) == [dt EXCEPT !.date = @ + n]

\* now_local.replace(hour=3, minute=0, second=0, microsecond=0)
Today3am(now_local) ==
    [now_local EXCEPT !.hour = 3, !.minute = 0, !.second = 0, !.microsecond = 0]

window_3am_to_3am_local_M1(now_local) ==
    LET today_3am == Today3am(now_local)
    IN  IF DtLess(today_3am, now_local)
        THEN <<today_3am, PlusDays(today_3am, 1)>>
        ELSE <<PlusDays(today_3am, 0 - 1), today_3am>>

window_3am_to_3am_local(now_local) ==
    LET today_3am == Today3am(now_local)
    IN  IF ~DtLess(now_local, today_3am)
        THEN <<today_3am, PlusDays(today_3am, 1)>>
        ELSE <<PlusDays(today_3am, 0 - 1), today_3am>>

\* The reference instants of the window specification
WindowDates == {1, 2}
WindowHours == 0..23
WindowMinutes == {0, 1, 59}
WindowSeconds == {0, 59}
WindowMicroseconds == {0, 1, 999999}

InitWindow ==
    /\ clock = 0
    /\ callIn \in { DateTime(d, h, m, sec, us) :
                      d \in WindowDates, h \in WindowHours, m \in WindowMinutes,
                      sec \in WindowSeconds, us \in WindowMicroseconds }
    /\ callOut = <<"pending">>
    /\ BotIdle
    /\ MmrIdle
    /\ EstIdle

WindowCall ==
    /\ callOut = <<"pending">>
    /\ callOut' = <<"ret", window_3am_to_3am_local(callIn)>>
    /\ UNCHANGED <<clock, callIn, botVars, mmrVars, estVars>>

NextWindow == WindowCall

SpecWindow == InitWindow /\ [][NextWindow]_vars

\* C13: the window (start, end) of a reference instant now has start at
\* 03:00:00 local, end exactly one day after start and start <= now < end;
\* it starts today when now is at or after today's 03:00 and yesterday
\* otherwise; for now exactly 03:00:00 the start equals now.
C13_Window ==
    callOut # <<"pending">> =>
        LET now == callIn
            start == callOut[2][1]
            end == callOut[2][2]
            at3 == /\ now.hour = 3 /\ now.minute = 0
                   /\ now.second = 0 /\ now.microsecond = 0
        IN  /\ start.hour = 3 /\ start.minute = 0
            /\ start.second = 0 /\ start.microsecond = 0
            /\ end = [start EXCEPT !.date = start.date + 1]
            /\ ~DtLess(now, start)
            /\ DtLess(now, end)
            /\ now.hour >= 3 => start.date = now.date
            /\ now.hour < 3 => start.date = now.date - 1
            /\ at3 => start = now

\* The window of the instant 03:00:00.000000 of day 2 has been computed.
C13_Witness ==
    /\ callIn = DateTime(2, 3, 0, 0, 0)
    /\ callOut = <<"ret", <<DateTime(2, 3, 0, 0, 0), DateTime(3, 3, 0, 0, 0)>>>>

-----------------------------------------------------------------------------
(* records.py: the windowed win/loss/KDA aggregator.  A match is the "info" *)
(* of a match JSON: three optional timestamps (milliseconds), a queue id    *)
(* and the list of participants.  A datetime made from a timestamp and the  *)
(* window limits are instants on one axis, counted in milliseconds: the     *)
(* code compares timezone-aware datetimes of different zones, that is,      *)
(* instants.  A float quotient is the fraction [num, den].                  *)

ARAM_QUEUES == {450, 2400}
ARAM_QUEUE == 0 - 1

Participant(puuid, win, kills, deaths, assists) ==
    [puuid |-> puuid, win |-> win, kills |-> kills, deaths |-> deaths,
     assists |-> assists]

Match(gameStartTimestamp, gameCreation, gameEndTimestamp, queueId, participants) ==
    [gameStartTimestamp |-> gameStartTimestamp, gameCreation |-> gameCreation,
     gameEndTimestamp |-> gameEndTimestamp, queueId |-> queueId,
     participants |-> participants]

\* "not ts": a missing (None) or zero timestamp
Falsy(ts) == ts = None \/ ts = Some(0)

\* the first participant with the puuid, or None
participant_for_puuid(match, puuid) ==
    LET hits == SelectSeq(match.participants, LAMBDA p : p.puuid = puuid)
    IN  IF hits = <<>> THEN None ELSE Some(hits[1])

queue_id(match) == match.queueId

\* gameStartTimestamp or gameCreation or gameEndTimestamp, as an instant
game_start_local(m) ==
    LET ts == IF ~Falsy(m.gameStartTimestamp) THEN m.gameStartTimestamp
              ELSE IF ~Falsy(m.gameCreation) THEN m.gameCreation
              ELSE m.gameEndTimestamp
    IN  IF Falsy(ts) THEN None ELSE ts

Fraction(num, den) == [num |-> num, den |-> den]
Max(a, b) == IF a >= b THEN a ELSE b

\* if start and t < start: continue / if end and t >= end: continue
InWindow_M1(t, start, end) ==
    /\ ~(start # None /\ t[1] < start[1])
    /\ ~(end # None /\ t[1] > end[1])

InWindow(t, start, end) ==
    /\ ~(start # None /\ t[1] < start[1])
    /\ ~(end # None /\ t[1] >= end[1])

\* the two queue tests of the loop body
QueuePasses_M1(filter, qid) == TRUE

QueuePasses(filter, qid) ==
    IF filter = Some(ARAM_QUEUE) /\ qid \notin ARAM_QUEUES
    THEN FALSE
    ELSE ~(filter # None /\ filter # Some(ARAM_QUEUE) /\ Some(qid) # filter)

ZeroTotals == [games |-> 0, wins |-> 0, losses |-> 0, k |-> 0, d |-> 0, a |-> 0]

\* One iteration of "for m in matches"
CountMatch(acc, m, puuid, filter, start, end) ==
    LET t == game_start_local(m)
        me == participant_for_puuid(m, puuid)
    IN  IF t = None THEN acc
        ELSE IF ~InWindow(t, start, end) THEN acc
        ELSE IF ~QueuePasses(filter, queue_id(m)) THEN acc
        ELSE IF me = None THEN acc
        ELSE [games |-> acc.games + 1,
              wins |-> acc.wins + (IF me[1].win THEN 1 ELSE 0),
              losses |-> acc.losses + (IF me[1].win THEN 0 ELSE 1),
              k |-> acc.k + me[1].kills,
              d |-> acc.d + me[1].deaths,
              a |-> acc.a + me[1].assists]

RECURSIVE CountMatches(_, _, _, _, _, _)
CountMatches(acc, matches, puuid, filter, start, end) ==
    IF matches = <<>>
    THEN acc
    ELSE CountMatches(CountMatch(acc, Head(matches), puuid, filter, start, end),
                      Tail(matches), puuid, filter, start, end)

\* kda = (k + a) / max(1, d) if games > 0 else 0.0
Kda_M1(acc) ==
    IF acc.games > 0 THEN Fraction(acc.k + acc.a, Max(1, acc.d + 1)) ELSE Fraction(0, 1)

Kda(acc) ==
    IF acc.games > 0 THEN Fraction(acc.k + acc.a, Max(1, acc.d)) ELSE Fraction(0, 1)

compute_wl_kda(matches, puuid, filter, start, end) ==
    LET acc == CountMatches(ZeroTotals, matches, puuid, filter, start, end)
    IN  [games |-> acc.games, wins |-> acc.wins, losses |-> acc.losses,
         kda |-> Kda(acc)]

\* Arithmetic of quotients
FracAdd(x, y) == Fraction(x.num * y.den + y.num * x.den, x.den * y.den)
FracTimes(x, n) == Fraction(x.num * n, x.den)
FracOver(x, n) == Fraction(x.num, x.den * n)
FracEq(x, y) == x.num * y.den = y.num * x.den

\* bot.py dailyrecords, dashboard_demo.py: the ARAM total of one player
\* aram_total["kda"] += r["kda"] * r["games"]
AramTerm_M1(r) == r.kda

AramTerm(r) == FracTimes(r.kda, r.games)

RECURSIVE AramLoop(_, _, _, _, _, _)
AramLoop(total, qids, matches, puuid, start, end) ==
    IF qids = {}
    THEN total
    ELSE LET qid == CHOOSE q \in qids : TRUE
             r == compute_wl_kda(matches, puuid, Some(qid), start, end)
         IN  AramLoop([games |-> total.games + r.games,
                       wins |-> total.wins + r.wins,
                       losses |-> total.losses + r.losses,
                       kda |-> FracAdd(total.kda, AramTerm(r)),
                       weight |-> total.weight + r.games],
                      qids \ {qid}, matches, puuid, start, end)

aram_total(matches, puuid, start, end) ==
    LET total == AramLoop([games |-> 0, wins |-> 0, losses |-> 0,
                           kda |-> Fraction(0, 1), weight |-> 0],
                          ARAM_QUEUES, matches, puuid, start, end)
    IN  [games |-> total.games, wins |-> total.wins, losses |-> total.losses,
         kda |-> IF total.weight > 0
                 THEN FracOver(total.kda, total.weight)
                 ELSE Fraction(0, 1)]

\* Inputs of the aggregator specification: the window is [10, 20)
StatWindow == <<Some(10), Some(20)>>

StatTimes ==
    { <<None, None, None>>,           \* no derivable start time
      <<Some(10), None, None>>,       \* starts exactly at start
      <<Some(20), None, None>>,       \* starts exactly at end
      <<Some(9), Some(15), None>>,    \* starts before start
      <<Some(0), Some(15), None>> }   \* start taken from gameCreation

StatQueues == {420, 450, 2400}

StatParticipants ==
    { <<Participant("other", TRUE, 9, 9, 9)>>,
      <<Participant("me", TRUE, 2, 0, 3)>>,
      <<Participant("other", TRUE, 9, 9, 9), Participant("me", FALSE, 1, 2, 1)>> }

StatMatches ==
    { Match(t[1], t[2], t[3], q, ps) :
        t \in StatTimes, q \in StatQueues, ps \in StatParticipants }

StatFilters == {None, Some(ARAM_QUEUE), Some(450)}

MatchLists == UNION { [1..n -> StatMatches] : n \in 0..MaxMatches }

InitStats ==
    /\ clock = 0
    /\ callIn \in [matches : MatchLists, puuid : {"me"}, queue_id : StatFilters,
                    window : {<<None, None>>, StatWindow}]
    /\ callOut = <<"pending">>
    /\ BotIdle
    /\ MmrIdle
    /\ EstIdle

\* compute_wl_kda(matches, puuid, queue_id, start, end)
WlKdaCall ==
    /\ callOut = <<"pending">>
    /\ callOut' = <<"wl", compute_wl_kda(callIn.matches, callIn.puuid,
                       callIn.queue_id, callIn.window[1], callIn.window[2])>>
    /\ UNCHANGED <<clock, callIn, botVars, mmrVars, estVars>>

\* the loop "for qid in ARAM_QUEUES" of a caller (which passes no queue_id
\* of its own)
AramCall ==
    /\ callOut = <<"pending">>
    /\ callIn.queue_id = None
    /\ callOut' = <<"aram", aram_total(callIn.matches, callIn.puuid,
                        callIn.window[1], callIn.window[2])>>
    /\ UNCHANGED <<clock, callIn, botVars, mmrVars, estVars>>

NextStats == WlKdaCall \/ AramCall

SpecStats == InitStats /\ [][NextStats]_vars

-----------------------------------------------------------------------------
(* Properties of the aggregator (SpecStats) *)

\* The start time of a match: the first of gameStartTimestamp, gameCreation
\* and gameEndTimestamp that is present and not zero
StartTimes(m) ==
    SelectSeq(<<m.gameStartTimestamp, m.gameCreation, m.gameEndTimestamp>>,
              LAMBDA ts : ts # None /\ ts # Some(0))

HasStart(m) == StartTimes(m) # <<>>
StartOf(m) == StartTimes(m)[1][1]

TimeOk(m, window) ==
    /\ HasStart(m)
    /\ window[1] # None => window[1][1] <= StartOf(m)
    /\ window[2] # None => StartOf(m) < window[2][1]

QueueOk(m, filter) ==
    \/ filter = None
    \/ filter = Some(0 - 1) /\ m.queueId \in {450, 2400}
    \/ filter # None /\ filter # Some(0 - 1) /\ m.queueId = filter[1]

Present(m, puuid) == \E k \in 1..Len(m.participants) : m.participants[k].puuid = puuid

\* The player's record in a match he is present in: the first one
Me(m, puuid) ==
    m.participants[CHOOSE k \in 1..Len(m.participants) :
                      /\ m.participants[k].puuid = puuid
                      /\ \A j \in 1..(k - 1) : m.participants[j].puuid # puuid]

\* The positions of the list that a call counts
Counted(in, filter) ==
    { i \in 1..Len(in.matches) :
        /\ TimeOk(in.matches[i], in.window)
        /\ QueueOk(in.matches[i], filter)
        /\ Present(in.matches[i], in.puuid) }

RECURSIVE SeqSum(_)
SeqSum(q) == IF q = <<>> THEN 0 ELSE Head(q) + SeqSum(Tail(q))

Kills(in, filter) ==
    SeqSum([i \in 1..Len(in.matches) |->
               IF i \in Counted(in, filter) THEN Me(in.matches[i], in.puuid).kills ELSE 0])
Deaths(in, filter) ==
    SeqSum([i \in 1..Len(in.matches) |->
               IF i \in Counted(in, filter) THEN Me(in.matches[i], in.puuid).deaths ELSE 0])
Assists(in, filter) ==
    SeqSum([i \in 1..Len(in.matches) |->
               IF i \in Counted(in, filter) THEN Me(in.matches[i], in.puuid).assists ELSE 0])

\* C14: in a windowed query a match is counted iff start <= t < end for its
\* start time t (a match starting exactly at start is counted, one starting
\* exactly at end is not); a match with no derivable start time is never
\* counted.
C14_HalfOpenWindow ==
    (callOut[1] = "wl" /\ callIn.window # <<None, None>>) =>
        LET lo == callIn.window[1][1]
            hi == callIn.window[2][1]
            inside == { i \in 1..Len(callIn.matches) :
                          /\ HasStart(callIn.matches[i])
                          /\ lo <= StartOf(callIn.matches[i])
                          /\ StartOf(callIn.matches[i]) < hi
                          /\ QueueOk(callIn.matches[i], callIn.queue_id)
                          /\ Present(callIn.matches[i], callIn.puuid) }
        IN  callOut[2].games = Cardinality(inside)

\* Two matches of the player, one starting exactly at start and one exactly
\* at end: one game.
C14_Witness ==
    /\ callOut[1] = "wl"
    /\ callIn.window = StatWindow
    /\ callIn.queue_id = None
    /\ Len(callIn.matches) = 2
    /\ callIn.matches[1].gameStartTimestamp = StatWindow[1]
    /\ callIn.matches[2].gameStartTimestamp = StatWindow[2]
    /\ Present(callIn.matches[1], "me") /\ Present(callIn.matches[2], "me")
    /\ callOut[2].games = 1

\* C15: kda = (kills + assists) / max(1, deaths) over the counted matches
\* when games > 0 (kills + assists when there is no death), and the result
\* is exactly {games: 0, wins: 0, losses: 0, kda: 0.0} for an empty list or
\* when no match passes the filters.
C15_Kda ==
    callOut[1] = "wl" =>
        LET in == callIn
            f == callIn.queue_id
            r == callOut[2]
        IN  /\ Counted(in, f) # {} =>
                  /\ r.games > 0
                  /\ r.kda.den > 0
                  /\ FracEq(r.kda,
                            Fraction(Kills(in, f) + Assists(in, f),
                                     IF Deaths(in, f) >= 1 THEN Deaths(in, f) ELSE 1))
                  /\ Deaths(in, f) = 0 =>
                        r.kda = Fraction(Kills(in, f) + Assists(in, f), 1)
            /\ Counted(in, f) = {} =>
                  r = [games |-> 0, wins |-> 0, losses |-> 0, kda |-> Fraction(0, 1)]

\* Two counted games without a death: kda = kills + assists = 10.
C15_Witness ==
    /\ callOut[1] = "wl"
    /\ callOut[2].games = 2
    /\ Deaths(callIn, callIn.queue_id) = 0
    /\ callOut[2].kda = Fraction(10, 1)

\* C16: with a single queue code a match is counted iff its queue code
\* equals it, with the ARAM bucket (-1) iff its queue code is an ARAM queue,
\* with no filter whatever its queue; in all cases iff it also has a
\* participant with the player's id; each match of the list is counted at
\* most once and games = wins + losses.
C16_QueueFilter ==
    callOut[1] = "wl" =>
        LET counted == Counted(callIn, callIn.queue_id)
            won == { i \in counted : Me(callIn.matches[i], callIn.puuid).win }
            r == callOut[2]
        IN  /\ r.games = Cardinality(counted)
            /\ r.wins = Cardinality(won)
            /\ r.losses = Cardinality(counted \ won)
            /\ r.games = r.wins + r.losses
            /\ r.games <= Len(callIn.matches)

\* The ARAM bucket over a match of queue 450 and a match of queue 2400.
C16_Witness ==
    /\ callOut[1] = "wl"
    /\ callIn.queue_id = Some(ARAM_QUEUE)
    /\ Len(callIn.matches) = 2
    /\ callIn.matches[1].queueId = 450
    /\ callIn.matches[2].queueId = 2400
    /\ callOut[2].games = 2
    /\ callOut[2].wins = 1
    /\ callOut[2].losses = 1

\* C17: the callers' ARAM total has games, wins and losses equal to the sums
\* of the per-code results over the ARAM queue set, and its kda is the
\* games-weighted average of the per-code kda values, 0.0 when there is no
\* game.
C17_AramTotal ==
    callOut[1] = "aram" =>
        LET r1 == compute_wl_kda(callIn.matches, callIn.puuid, Some(450),
                                 callIn.window[1], callIn.window[2])
            r2 == compute_wl_kda(callIn.matches, callIn.puuid, Some(2400),
                                 callIn.window[1], callIn.window[2])
            total == callOut[2]
        IN  /\ total.games = r1.games + r2.games
            /\ total.wins = r1.wins + r2.wins
            /\ total.losses = r1.losses + r2.losses
            /\ total.games = Cardinality(Counted(callIn, Some(0 - 1)))
            /\ total.games > 0 =>
                  /\ total.kda.den > 0
                  /\ FracEq(total.kda,
                            Fraction(r1.kda.num * r1.games * r2.kda.den
                                       + r2.kda.num * r2.games * r1.kda.den,
                                     r1.kda.den * r2.kda.den * (r1.games + r2.games)))
            /\ total.games = 0 => total.kda = Fraction(0, 1)

\* One game of queue 450 with kda 5 and one of queue 2400 with kda 1: the
\* total is 2 games with kda 3.
C17_Witness ==
    /\ callOut[1] = "aram"
    /\ callOut[2].games = 2
    /\ compute_wl_kda(callIn.matches, callIn.puuid, Some(450),
                      callIn.window[1], callIn.window[2]).kda = Fraction(5, 1)
    /\ compute_wl_kda(callIn.matches, callIn.puuid, Some(2400),
                      callIn.window[1], callIn.window[2]).kda = Fraction(2, 2)
    /\ FracEq(callOut[2].kda, Fraction(3, 1))

-----------------------------------------------------------------------------
(* analytics.py: compute_top_duos.  data["players"] maps a riot id to its   *)
(* puuid; a match has a queue id, participants [puuid, teamId] and the two  *)
(* team records, team 100 first as the API lists them.  Riot ids are        *)
(* ordered as DuoIds lists them (the order of sorted() on these strings,    *)
(* and the insertion order of the pool).                                    *)

DuoIds == <<"A", "B", "C", "D", "E", "F">>
DuoRank(rid) == CHOOSE k \in 1..Len(DuoIds) : DuoIds[k] = rid

DuoPuuid ==
    [A |-> "pA", B |-> "pB", C |-> "pC", D |-> "pD", E |-> "pE", F |-> "pF"]

\* data["players"]
DuoPlayers == [rid \in DOMAIN DuoPuuid |-> [puuid |-> DuoPuuid[rid]]]

DuoParticipant(puuid, teamId) == [puuid |-> puuid, teamId |-> teamId]

DuoMatch(queueId, participants, win100) ==
    [queueId |-> queueId, participants |-> participants,
     teams |-> << [teamId |-> 100, win |-> win100],
                  [teamId |-> 200, win |-> ~win100] >>]

\* The riot ids of the pool with the participant's puuid, in pool order
PoolIdsOf(players, p) ==
    SelectSeq(DuoIds, LAMBDA rid : rid \in DOMAIN players /\ players[rid].puuid = p.puuid)

\* teams[p["teamId"]].append(rid)
TeamKey(p) == p.teamId

\* teams = defaultdict(list), as the list of [teamId, members] in insertion
\* order, after the loop over the participants
RECURSIVE GroupTeams(_, _, _)
GroupTeams(teams, participants, players) ==
    IF participants = <<>>
    THEN teams
    ELSE LET p == Head(participants)
             rids == PoolIdsOf(players, p)
             at == { k \in 1..Len(teams) : teams[k].teamId = TeamKey(p) }
             next ==
                 IF rids = <<>> THEN teams
                 ELSE IF at = {}
                 THEN Append(teams, [teamId |-> TeamKey(p), members |-> rids])
                 ELSE [teams EXCEPT ![CHOOSE k \in at : TRUE].members = @ \o rids]
         IN  GroupTeams(next, Tail(participants), players)

\* sorted(members)
RECURSIVE SortedIds(_)
SortedIds(members) ==
    IF members = <<>>
    THEN <<>>
    ELSE LET k == CHOOSE a \in 1..Len(members) :
                     \A b \in 1..Len(members) :
                        \/ DuoRank(members[a]) < DuoRank(members[b])
                        \/ DuoRank(members[a]) = DuoRank(members[b]) /\ a <= b
         IN  <<members[k]>> \o
             SortedIds(SubSeq(members, 1, k - 1) \o SubSeq(members, k + 1, Len(members)))

\* combinations(q, 2): the pairs <<q[a], q[b]>>, a < b, in lexicographic order
RECURSIVE Combinations2(_)
Combinations2(q) ==
    IF Len(q) < 2
    THEN <<>>
    ELSE [b \in 1..(Len(q) - 1) |-> <<q[1], q[b + 1]>>] \o Combinations2(Tail(q))

\* duo = defaultdict(...): the rows [key, wins, games] in insertion order
NoDuos == <<>>

\* key in duo
HasDuo(duo, key) == \E k \in 1..Len(duo) : duo[k].key = key

\* the default factory: duo[key] = {"wins": 0, "games": 0}
NewDuo(duo, key) == Append(duo, [key |-> key, wins |-> 0, games |-> 0])

\* duo[key]["games"] += 1; if won: duo[key]["wins"] += 1
BumpDuo(duo, key, won) ==
    [duo EXCEPT ![CHOOSE k \in 1..Len(duo) : duo[k].key = key] =
        [key |-> key, wins |-> @.wins + (IF won THEN 1 ELSE 0), games |-> @.games + 1]]

\* for a, b in combinations(...): a missing key is created, then counted
RECURSIVE BumpPairs(_, _, _)
BumpPairs(duo, pairs, won) ==
    IF pairs = <<>> THEN duo
    ELSE IF ~HasDuo(duo, Head(pairs))
    THEN BumpPairs(NewDuo(duo, Head(pairs)), pairs, won)
    ELSE BumpPairs(BumpDuo(duo, Head(pairs), won), Tail(pairs), won)

\* info["teams"][0 if team == 100 else 1]["win"]
TeamWon_M1(m, team) == m.teams[1].win
TeamWon(m, team) == m.teams[IF team = 100 THEN 1 ELSE 2].win

RECURSIVE CountTeams(_, _, _)
CountTeams(duo, teams, m) ==
    IF teams = <<>> THEN duo
    ELSE CountTeams(BumpPairs(duo, Combinations2(SortedIds(Head(teams).members)),
                              TeamWon(m, Head(teams).teamId)),
                    Tail(teams), m)

\* for m in data["matches"].values(): ...
RECURSIVE CountDuos(_, _, _, _)
CountDuos(duo, matches, players, queue) ==
    IF matches = <<>> THEN duo
    ELSE LET m == Head(matches)
         IN  CountDuos(IF m.queueId # queue THEN duo
                       ELSE CountTeams(duo, GroupTeams(<<>>, m.participants, players), m),
                       Tail(matches), players, queue)

DUO_LIMIT == 10

\* if v["games"] >= min_games
Qualifies_M1(v, min_games) == TRUE
Qualifies(v, min_games) == v.games >= min_games

\* a < b
FracLess(a, b) == a.num * b.den < b.num * a.den

\* (k, v["wins"], v["games"], wr) with wr = wins / games * 100
DuoRow(v) ==
    [duo |-> v.key, wins |-> v.wins, games |-> v.games,
     wr |-> Fraction(v.wins * 100, v.games)]

\* sorted(out, key=wr, reverse=True): stable, so a row goes behind the rows
\* before it whose win rate is not smaller
RECURSIVE SortByWinRate(_, _)
SortByWinRate(sorted, rows) ==
    IF rows = <<>>
    THEN sorted
    ELSE LET x == Head(rows)
             ahead == { k \in 0..Len(sorted) :
                          \A j \in 1..k : ~FracLess(sorted[j].wr, x.wr) }
             at == CHOOSE k \in ahead : \A j \in ahead : j <= k
         IN  SortByWinRate(SubSeq(sorted, 1, at) \o <<x>> \o
                           SubSeq(sorted, at + 1, Len(sorted)),
                           Tail(rows))

compute_top_duos(d, queue, min_games) ==
    LET duo == CountDuos(NoDuos, d.matches, d.players, queue)
        kept == SelectSeq(duo, LAMBDA v : Qualifies(v, min_games))
        out == [k \in 1..Len(kept) |-> DuoRow(kept[k])]
        ranked == SortByWinRate(<<>>, out)
    IN  [duo |-> duo,
         out |-> SubSeq(ranked, 1, IF Len(ranked) < DUO_LIMIT THEN Len(ranked) ELSE DUO_LIMIT)]

\* Inputs of the duo specification ("pX", "pY": players outside the pool)
DuoMatches ==
    { DuoMatch(420, << DuoParticipant("pA", 100), DuoParticipant("pB", 100),
                       DuoParticipant("pC", 100), DuoParticipant("pD", 100),
                       DuoParticipant("pE", 100), DuoParticipant("pF", 200),
                       DuoParticipant("pX", 200) >>, TRUE),
      DuoMatch(420, << DuoParticipant("pA", 100), DuoParticipant("pF", 100),
                       DuoParticipant("pB", 200), DuoParticipant("pC", 200) >>, FALSE),
      DuoMatch(440, << DuoParticipant("pA", 100), DuoParticipant("pB", 100),
                       DuoParticipant("pC", 200), DuoParticipant("pD", 200) >>, TRUE),
      DuoMatch(420, << DuoParticipant("pA", 100), DuoParticipant("pX", 100),
                       DuoParticipant("pB", 200), DuoParticipant("pY", 200) >>, TRUE),
      DuoMatch(420, << DuoParticipant("pC", 200), DuoParticipant("pA", 100),
                       DuoParticipant("pD", 200), DuoParticipant("pB", 100) >>, FALSE),
      DuoMatch(420, << DuoParticipant("pA", 100), DuoParticipant("pB", 100),
                       DuoParticipant("pC", 200), DuoParticipant("pD", 200) >>, TRUE) }

\* Two pairs with 5 games (A,B and C,D) and three pairs with 1 game
BackfillCase ==
    [k \in 1..5 |->
        DuoMatch(420, << DuoParticipant("pA", 100), DuoParticipant("pB", 100),
                         DuoParticipant("pC", 200), DuoParticipant("pD", 200) >>, TRUE)]
    \o << DuoMatch(420, << DuoParticipant("pA", 100), DuoParticipant("pC", 100),
                           DuoParticipant("pE", 100) >>, TRUE) >>

DuoLists ==
    UNION { [1..n -> DuoMatches] : n \in 0..MaxMatches } \cup {BackfillCase}

DuoQueues == {420, 440}
DuoMinGames == {1, 2, 5}

InitDuos ==
    /\ clock = 0
    /\ callIn \in [data : [players : {DuoPlayers}, matches : DuoLists],
                    queue_id : DuoQueues, min_games : DuoMinGames]
    /\ callOut = <<"pending">>
    /\ BotIdle
    /\ MmrIdle
    /\ EstIdle

TopDuosCall ==
    /\ callOut = <<"pending">>
    /\ callOut' = <<"duos", compute_top_duos(callIn.data, callIn.queue_id,
                                             callIn.min_games)>>
    /\ UNCHANGED <<clock, callIn, botVars, mmrVars, estVars>>

NextDuos == TopDuosCall

SpecDuos == InitDuos /\ [][NextDuos]_vars

-----------------------------------------------------------------------------
(* Properties of compute_top_duos (SpecDuos) *)

OnTeam(m, rid, team) ==
    \E k \in 1..Len(m.participants) :
        /\ m.participants[k].puuid = DuoPuuid[rid]
        /\ m.participants[k].teamId = team

WinFlag(m, team) ==
    \E k \in 1..Len(m.teams) : m.teams[k].teamId = team /\ m.teams[k].win

\* The matches of the queue in which a and b are on one team (that won)
GamesTogether(in, a, b) ==
    { i \in 1..Len(in.data.matches) :
        /\ in.data.matches[i].queueId = in.queue_id
        /\ \E team \in {100, 200} :
              OnTeam(in.data.matches[i], a, team) /\ OnTeam(in.data.matches[i], b, team) }

WinsTogether(in, a, b) ==
    { i \in GamesTogether(in, a, b) :
        \E team \in {100, 200} :
            /\ OnTeam(in.data.matches[i], a, team)
            /\ OnTeam(in.data.matches[i], b, team)
            /\ WinFlag(in.data.matches[i], team) }

\* The counters of a call, by key
DuoCount ==
    [key \in { callOut[2].duo[k].key : k \in 1..Len(callOut[2].duo) } |->
        LET v == callOut[2].duo[CHOOSE k \in 1..Len(callOut[2].duo) :
                                  callOut[2].duo[k].key = key]
        IN  [wins |-> v.wins, games |-> v.games]]

\* C18: for every match of the queue and each team, every unordered pair of
\* pool members on that team gets one game under the key of the sorted pair
\* and one win iff that team has its win flag set; pairs of members on
\* opposite teams are never counted, and wins <= games.
C18_DuoCounting ==
    callOut[1] = "duos" =>
        LET count == DuoCount
        IN  /\ \A a, b \in 1..Len(DuoIds) :
                  a < b =>
                     LET key == <<DuoIds[a], DuoIds[b]>>
                         games == Cardinality(GamesTogether(callIn, DuoIds[a], DuoIds[b]))
                         wins == Cardinality(WinsTogether(callIn, DuoIds[a], DuoIds[b]))
                     IN  /\ games = 0 => key \notin DOMAIN count
                         /\ games > 0 =>
                               /\ key \in DOMAIN count
                               /\ count[key] = [wins |-> wins, games |-> games]
                         /\ <<DuoIds[b], DuoIds[a]>> \notin DOMAIN count
            /\ Cardinality(DOMAIN count) = Len(callOut[2].duo)
            /\ \A key \in DOMAIN count : count[key].wins <= count[key].games

\* C and D won together on team 200, A and B lost together on team 100, and
\* no pair across the teams was counted.
C18_Witness ==
    /\ callOut[1] = "duos"
    /\ Len(callIn.data.matches) = 1
    /\ ~callIn.data.matches[1].teams[1].win
    /\ DOMAIN DuoCount = {<<"A", "B">>, <<"C", "D">>}
    /\ DuoCount[<<"C", "D">>] = [wins |-> 1, games |-> 1]
    /\ DuoCount[<<"A", "B">>] = [wins |-> 0, games |-> 1]

\* C19: every returned pair has games >= the threshold and win rate
\* wins / games * 100; the list is sorted by win rate descending and holds
\* the top DUO_LIMIT pairs: no qualifying pair with a higher win rate than a
\* returned pair is left out.
C19_DuoOutput ==
    callOut[1] = "duos" =>
        LET count == DuoCount
            out == callOut[2].out
            qualifying == { key \in DOMAIN count : count[key].games >= callIn.min_games }
            returned == { out[k].duo : k \in 1..Len(out) }
        IN  /\ \A k \in 1..Len(out) :
                  /\ out[k].duo \in qualifying
                  /\ out[k].games = count[out[k].duo].games
                  /\ out[k].wins = count[out[k].duo].wins
                  /\ out[k].games >= callIn.min_games
                  /\ out[k].wr.den > 0
                  /\ FracEq(out[k].wr, Fraction(out[k].wins * 100, out[k].games))
            /\ \A j, k \in 1..Len(out) : j < k => ~FracLess(out[j].wr, out[k].wr)
            /\ Cardinality(returned) = Len(out)
            /\ Len(out) = IF Cardinality(qualifying) < DUO_LIMIT
                           THEN Cardinality(qualifying) ELSE DUO_LIMIT
            /\ \A key \in qualifying \ returned :
                  \A k \in 1..Len(out) :
                      ~FracLess(out[k].wr,
                                Fraction(count[key].wins * 100, count[key].games))

\* Eleven pairs qualify and the pair with the lowest win rate is cut.
C19_Witness ==
    /\ callOut[1] = "duos"
    /\ Len(callOut[2].duo) = DUO_LIMIT + 1
    /\ callIn.min_games = 1
    /\ Len(callOut[2].out) = DUO_LIMIT
    /\ \A k \in 1..Len(callOut[2].out) : callOut[2].out[k].duo # <<"A", "F">>

\* Pairs by their number of games
PairsWithGames(lo, hi) ==
    { key \in DOMAIN DuoCount :
        lo <= DuoCount[key].games /\ DuoCount[key].games <= hi }

\* C20: when only 2 pairs have at least 5 games and 3 more pairs have 1 to 4
\* games, the top 5 holds all 5 pairs: the 2 qualifying ones and the 3
\* backfilled ones, each tier sorted by win rate descending.
C20_DuoBackfill ==
    (/\ callOut[1] = "duos"
     /\ callIn.min_games = 5
     /\ Cardinality(PairsWithGames(5, 5 * Len(callIn.data.matches))) = 2
     /\ Cardinality(PairsWithGames(1, 4)) = 3) =>
        LET out == callOut[2].out
        IN  /\ Len(out) = 5
            /\ \A k \in 1..2 : out[k].games >= 5
            /\ \A k \in 3..5 : out[k].games < 5
            /\ ~FracLess(out[1].wr, out[2].wr)
            /\ ~FracLess(out[3].wr, out[4].wr) /\ ~FracLess(out[4].wr, out[5].wr)

-----------------------------------------------------------------------------
(* records.py: compute_top_flex_stacks.  A match carries the three optional *)
(* timestamps of the aggregator, a queue id, participants [puuid, teamId,   *)
(* win] and the two team records compute_top_duos reads.  The start of the  *)
(* season and the start of a game are instants on one axis.                 *)

FLEX_QUEUE == 440
STACK_SIZE == 5
STACK_MIN_GAMES == 3

StackParticipant(puuid, teamId, win100) ==
    [puuid |-> puuid, teamId |-> teamId, win |-> (teamId = 100) = win100]

\* side100, side200: the puuids of the two teams; order: the slots in which
\* the participants are listed, as <<team, position on the team>>
StackMatch(queueId, start, side100, side200, order, win100) ==
    [gameStartTimestamp |-> start, gameCreation |-> None, gameEndTimestamp |-> None,
     queueId |-> queueId,
     participants |->
        [k \in 1..Len(order) |->
            StackParticipant(IF order[k][1] = 100 THEN side100[order[k][2]]
                             ELSE side200[order[k][2]],
                             order[k][1], win100)],
     teams |-> << [teamId |-> 100, win |-> win100],
                  [teamId |-> 200, win |-> ~win100] >>]

\* puuid_to_riot[puuid] = riot_id, for the players with a puuid; a later
\* riot id with the same puuid replaces an earlier one
puuid_to_riot(players) ==
    [puuid \in { players[rid].puuid : rid \in DOMAIN players } |->
        LET ids == SelectSeq(DuoIds, LAMBDA rid :
                       rid \in DOMAIN players /\ players[rid].puuid = puuid)
        IN  ids[Len(ids)]]

\* the loop over parts: team_members and team_win, as the list of
\* [teamId, members, win] in insertion order
RECURSIVE StackTeams(_, _, _)
StackTeams(teams, parts, p2r) ==
    IF parts = <<>>
    THEN teams
    ELSE LET p == Head(parts)
             at == { k \in 1..Len(teams) : teams[k].teamId = p.teamId }
             next ==
                 IF p.puuid \notin DOMAIN p2r THEN teams
                 ELSE IF at = {}
                 THEN Append(teams, [teamId |-> p.teamId, members |-> <<p2r[p.puuid]>>,
                                     win |-> p.win])
                 ELSE [teams EXCEPT ![CHOOSE k \in at : TRUE].members =
                                        Append(@, p2r[p.puuid])]
         IN  StackTeams(next, Tail(parts), p2r)

\* if len(riot_ids) != 5: continue
FullStack_M1(riot_ids) == Len(riot_ids) >= STACK_SIZE - 1
FullStack(riot_ids) == Len(riot_ids) = STACK_SIZE

\* stack_key in stacks
HasStack(stacks, key) == \E k \in 1..Len(stacks) : stacks[k].stack = key

\* stacks.setdefault(stack_key, {"wins": 0, "losses": 0, "games": 0})
NewStack(stacks, key) ==
    Append(stacks, [stack |-> key, wins |-> 0, losses |-> 0, games |-> 0])

\* rec["games"] += 1; rec["wins"] += 1 or rec["losses"] += 1
BumpStack(stacks, key, won) ==
    [stacks EXCEPT ![CHOOSE k \in 1..Len(stacks) : stacks[k].stack = key] =
        [stack |-> key, wins |-> @.wins + (IF won THEN 1 ELSE 0),
         losses |-> @.losses + (IF won THEN 0 ELSE 1), games |-> @.games + 1]]

\* for team_id, riot_ids in team_members.items(): ...
RECURSIVE CountStackTeams(_, _)
CountStackTeams(stacks, teams) ==
    IF teams = <<>> THEN stacks
    ELSE IF ~FullStack(Head(teams).members)
    THEN CountStackTeams(stacks, Tail(teams))
    ELSE IF ~HasStack(stacks, SortedIds(Head(teams).members))
    THEN CountStackTeams(NewStack(stacks, SortedIds(Head(teams).members)), teams)
    ELSE CountStackTeams(BumpStack(stacks, SortedIds(Head(teams).members),
                                   Head(teams).win),
                         Tail(teams))

\* if not t_local or t_local < season_start_local: continue
InSeason(t, season_start_local) == t # None /\ ~(t[1] < season_start_local)

\* One iteration of "for mid, m in data['matches'].items()"
CountStackMatch(stacks, m, p2r, season_start_local) ==
    IF m.queueId # FLEX_QUEUE THEN stacks
    ELSE IF ~InSeason(game_start_local(m), season_start_local) THEN stacks
    ELSE IF m.participants = <<>> THEN stacks
    ELSE CountStackTeams(stacks, StackTeams(<<>>, m.participants, p2r))

RECURSIVE CountStacks(_, _, _, _)
CountStacks(stacks, matches, p2r, season_start_local) ==
    IF matches = <<>> THEN stacks
    ELSE CountStacks(CountStackMatch(stacks, Head(matches), p2r, season_start_local),
                     Tail(matches), p2r, season_start_local)

\* wr = (wins / games * 100.0) if games else 0.0
StackRow(rec) ==
    [stack |-> rec.stack, wins |-> rec.wins, losses |-> rec.losses, games |-> rec.games,
     wr |-> IF rec.games # 0 THEN Fraction(rec.wins * 100, rec.games) ELSE Fraction(0, 1)]

\* (a["wr"], a["games"]) < (b["wr"], b["games"])
StackKeyLess(a, b) ==
    \/ FracLess(a.wr, b.wr)
    \/ FracEq(a.wr, b.wr) /\ a.games < b.games

\* list.sort(key=(wr, games), reverse=True): stable, so a row goes behind
\* the rows before it whose key is not smaller
RECURSIVE SortStacks(_, _)
SortStacks(sorted, rows) ==
    IF rows = <<>>
    THEN sorted
    ELSE LET x == Head(rows)
             ahead == { k \in 0..Len(sorted) :
                          \A j \in 1..k : ~StackKeyLess(sorted[j], x) }
             at == CHOOSE k \in ahead : \A j \in ahead : j <= k
         IN  SortStacks(SubSeq(sorted, 1, at) \o <<x>> \o
                        SubSeq(sorted, at + 1, Len(sorted)),
                        Tail(rows))

\* q[:n] for n >= 0
Take(q, n) == SubSeq(q, 1, IF Len(q) < n THEN Len(q) ELSE n)

\* if len(top) < top_n: top.extend(under_3[:(top_n - len(top))])
Backfill_M1(top, under_3, top_n) == top
Backfill(top, under_3, top_n) ==
    IF Len(top) < top_n THEN top \o Take(under_3, top_n - Len(top)) ELSE top

\* returns (top, unique_stacks)
compute_top_flex_stacks(d, top_n, season_start_local) ==
    LET stacks == CountStacks(<<>>, d.matches, puuid_to_riot(d.players),
                              season_start_local)
        out == SortStacks(<<>>, [k \in 1..Len(stacks) |-> StackRow(stacks[k])])
        unique_stacks == Len(out)
        at_least_3 == SortStacks(<<>>, SelectSeq(out, LAMBDA r : r.games >= STACK_MIN_GAMES))
        under_3 == SortStacks(<<>>, SelectSeq(out, LAMBDA r : r.games < STACK_MIN_GAMES))
    IN  <<Backfill(Take(at_least_3, top_n), under_3, top_n), unique_stacks>>

\* Inputs of the stack specification ("pV" .. "pZ": players outside the pool)
SeasonStart == 10

\* the participants listed team by team, and listed in turn
Sides(n100, n200) ==
    [k \in 1..(n100 + n200) |-> IF k <= n100 THEN <<100, k>> ELSE <<200, k - n100>>]
InTurn(n) ==
    [k \in 1..(2 * n) |-> IF k % 2 = 1 THEN <<100, (k + 1) \div 2>> ELSE <<200, k \div 2>>]

StackABCDE == <<"pA", "pB", "pC", "pD", "pE">>

\* the stack A..E wins at the very start of the season
StackAtStart ==
    StackMatch(FLEX_QUEUE, Some(SeasonStart), StackABCDE, <<"pF", "pX">>, Sides(5, 2), TRUE)
\* four pool members and one outsider on team 100
FourAndOne ==
    StackMatch(FLEX_QUEUE, Some(SeasonStart + 1), <<"pA", "pB", "pC", "pD", "pX">>,
               <<"pY", "pF">>, Sides(5, 2), TRUE)
\* the stack A..E one millisecond before the season
StackBefore ==
    StackMatch(FLEX_QUEUE, Some(SeasonStart - 1), StackABCDE, <<"pF", "pX">>, Sides(5, 2), TRUE)
\* five pool members in a match of the solo queue
StackSolo ==
    StackMatch(420, Some(SeasonStart + 1), StackABCDE, <<"pF", "pX">>, Sides(5, 2), TRUE)
\* the stack B..F wins on team 200
StackBCDEF ==
    StackMatch(FLEX_QUEUE, Some(SeasonStart + 1), <<"pA", "pX">>,
               <<"pB", "pC", "pD", "pE", "pF">>, Sides(2, 5), FALSE)
\* no timestamp at all
StackUntimed ==
    StackMatch(FLEX_QUEUE, None, StackABCDE, <<"pF", "pX">>, Sides(5, 2), TRUE)
\* the stack A, C, D, E, F loses; unsorted and listed in turn with outsiders
StackACDEF ==
    StackMatch(FLEX_QUEUE, Some(SeasonStart + 2), <<"pF", "pA", "pE", "pC", "pD">>,
               <<"pV", "pW", "pX", "pY", "pZ">>, InTurn(5), FALSE)
\* the stack A..E loses
StackLost ==
    StackMatch(FLEX_QUEUE, Some(SeasonStart + 1), StackABCDE, <<"pF", "pX">>, Sides(5, 2), FALSE)
\* no participants
StackEmpty ==
    StackMatch(FLEX_QUEUE, Some(SeasonStart + 1), <<>>, <<>>, <<>>, TRUE)

StackMatches ==
    { StackAtStart, FourAndOne, StackBefore, StackSolo, StackBCDEF, StackUntimed,
      StackACDEF, StackLost, StackEmpty }

\* Stored matches that give stacks three games and more
StackPrefixes ==
    { <<>>,
      <<StackLost, StackLost, StackAtStart>>,
      <<StackBCDEF, StackBCDEF, StackBCDEF,
        StackAtStart, StackAtStart, StackAtStart, StackAtStart>> }

StackLists ==
    { pre \o q : pre \in StackPrefixes,
                 q \in UNION { [1..n -> StackMatches] : n \in 0..MaxMatches } }

StackTopN == {0, 1, 2, 5}

InitStacks ==
    /\ clock = 0
    /\ callIn \in [data : [players : {DuoPlayers}, matches : StackLists],
                    top_n : StackTopN, season_start_local : {SeasonStart}]
    /\ callOut = <<"pending">>
    /\ BotIdle
    /\ MmrIdle
    /\ EstIdle

FlexStacksCall ==
    /\ callOut = <<"pending">>
    /\ callOut' = <<"stacks", compute_top_flex_stacks(callIn.data, callIn.top_n,
                                                      callIn.season_start_local)>>
    /\ UNCHANGED <<clock, callIn, botVars, mmrVars, estVars>>

\* duo mode over the same stored matches
DuoModeCall ==
    /\ callOut = <<"pending">>
    /\ callOut' = <<"duomode", compute_top_duos(callIn.data, FLEX_QUEUE, 1)>>
    /\ UNCHANGED <<clock, callIn, botVars, mmrVars, estVars>>

NextStacks == FlexStacksCall \/ DuoModeCall

SpecStacks == InitStacks /\ [][NextStacks]_vars

-----------------------------------------------------------------------------
(* Properties of compute_top_flex_stacks and of duo mode over the same      *)
(* stored matches (SpecStacks) *)

\* The pool members among the participants of a team
TrackedOn(m, team) == { rid \in DOMAIN DuoPuuid : OnTeam(m, rid, team) }

FiveSets == { S \in SUBSET DOMAIN DuoPuuid : Cardinality(S) = STACK_SIZE }

\* A flex match that started at the season's start or later
Eligible(in, m) ==
    /\ m.queueId = FLEX_QUEUE
    /\ game_start_local(m) # None
    /\ game_start_local(m)[1] >= in.season_start_local

\* The stored matches in which exactly the members of S are the pool members
\* of one team (that won)
StackGames(in, S) ==
    { i \in 1..Len(in.data.matches) :
        /\ Eligible(in, in.data.matches[i])
        /\ \E team \in {100, 200} : TrackedOn(in.data.matches[i], team) = S }

StackWins(in, S) ==
    { i \in StackGames(in, S) :
        \E team \in {100, 200} :
            /\ TrackedOn(in.data.matches[i], team) = S
            /\ WinFlag(in.data.matches[i], team) }

ObservedStacks(in) == { S \in FiveSets : StackGames(in, S) # {} }

MembersOf(stack) == { stack[k] : k \in 1..Len(stack) }

Min(a, b) == IF a <= b THEN a ELSE b

\* C21: a stack record stands for exactly 5 pool members on one team: every
\* returned record has 5 members and its games and wins are the numbers of
\* eligible matches in which exactly these 5 are the pool members of a team
\* (that won), and the number of distinct stacks is the number of such
\* 5-sets, so a team with 4 pool members adds nothing; duo mode over the
\* same matches counts every pair of pool members of a team, also of a team
\* with 4 of them.
C21_ExactlyFive ==
    /\ callOut[1] = "stacks" =>
          /\ \A k \in 1..Len(callOut[2][1]) :
                LET r == callOut[2][1][k]
                IN  /\ Len(r.stack) = STACK_SIZE
                    /\ MembersOf(r.stack) \in ObservedStacks(callIn)
                    /\ r.games = Cardinality(StackGames(callIn, MembersOf(r.stack)))
                    /\ r.wins = Cardinality(StackWins(callIn, MembersOf(r.stack)))
          /\ callOut[2][2] = Cardinality(ObservedStacks(callIn))
    /\ callOut[1] = "duomode" =>
          \A a, b \in 1..Len(DuoIds) :
              a < b =>
                 LET key == <<DuoIds[a], DuoIds[b]>>
                     in == [data |-> callIn.data, queue_id |-> FLEX_QUEUE]
                     games == Cardinality(GamesTogether(in, DuoIds[a], DuoIds[b]))
                 IN  IF games = 0
                     THEN key \notin DOMAIN DuoCount
                     ELSE key \in DOMAIN DuoCount /\ DuoCount[key].games = games

\* The match with A, B, C, D and an outsider on team 100 is stored next to a
\* game of the stack A..E: only the stack A..E is recorded, with one game.
C21_Witness ==
    /\ callOut[1] = "stacks"
    /\ callIn.data.matches = <<FourAndOne, StackAtStart>>
    /\ callIn.top_n = 5
    /\ callOut[2] = << << [stack |-> <<"A", "B", "C", "D", "E">>, wins |-> 1,
                           losses |-> 0, games |-> 1, wr |-> Fraction(100, 1)] >>, 1 >>

\* C22: the list has min(top_n, number of distinct stacks) records and no
\* stack twice; a record with fewer than STACK_MIN_GAMES games is returned
\* only when fewer than top_n stacks have that many; the second value is the
\* number of distinct stacks whatever top_n is; wins + losses = games.
C22_StackBackfill ==
    callOut[1] = "stacks" =>
        LET top == callOut[2][1]
            distinct == Cardinality(ObservedStacks(callIn))
            sampled == { S \in ObservedStacks(callIn) :
                           Cardinality(StackGames(callIn, S)) >= STACK_MIN_GAMES }
        IN  /\ Len(top) = Min(callIn.top_n, distinct)
            /\ \A j, k \in 1..Len(top) : j # k => top[j].stack # top[k].stack
            /\ (\E k \in 1..Len(top) : top[k].games < STACK_MIN_GAMES) =>
                  Cardinality(sampled) < callIn.top_n
            /\ callOut[2][2] = distinct
            /\ \A k \in 1..Len(top) : top[k].wins + top[k].losses = top[k].games

\* One stack has three games, two more have one game each, and the top 2 is
\* asked for: the list is the sampled stack and one backfilled stack, and
\* the count of distinct stacks is 3.
C22_Witness ==
    /\ callOut[1] = "stacks"
    /\ callIn.top_n = 2
    /\ callOut[2][2] = 3
    /\ Len(callOut[2][1]) = 2
    /\ callOut[2][1][1].games >= STACK_MIN_GAMES
    /\ callOut[2][1][2].games < STACK_MIN_GAMES

\* a has a lower win rate than b, or the same win rate and fewer games
RanksBelow(a, b) ==
    \/ a.wins * b.games < b.wins * a.games
    \/ a.wins * b.games = b.wins * a.games /\ a.games < b.games

\* C23: the returned list is sorted by win rate descending, ties by games
\* descending, over the whole list.
C23_StackOrder ==
    callOut[1] = "stacks" =>
        \A j, k \in 1..Len(callOut[2][1]) :
            j < k => ~RanksBelow(callOut[2][1][j], callOut[2][1][k])

\* The stored matches without those that started before the instant
NotOlder(in) ==
    [in.data EXCEPT !.matches =
        SelectSeq(in.data.matches,
                  LAMBDA m : ~(game_start_local(m) # None
                               /\ game_start_local(m)[1] < in.season_start_local))]

\* C24: neither mode counts a match that started before the given instant:
\* the result is the result over the stored matches without the older ones.
C24_LookBack ==
    /\ callOut[1] = "stacks" =>
          callOut[2] = compute_top_flex_stacks(NotOlder(callIn), callIn.top_n,
                                               callIn.season_start_local)
    /\ callOut[1] = "duomode" =>
          callOut[2] = compute_top_duos(NotOlder(callIn), FLEX_QUEUE, 1)

-----------------------------------------------------------------------------
(* grieftracker.py.  A Python float is modelled by the exact rational it    *)
(* stands for, kept in lowest terms with a positive denominator.  round()  *)
(* is rounding of that rational; when the rational lies midway between two  *)
(* neighbours the float's representation error decides, so a call rounds    *)
(* such ties down (tie = 0) or up (tie = 1).  A raised exception is the     *)
(* result <<"raise", name>>.                                                *)

RECURSIVE Gcd(_, _)
Gcd(a, b) == IF b = 0 THEN a ELSE Gcd(b, a % b)

\* num / den, den # 0
Rat(num, den) ==
    LET g == Gcd(Abs(num), Abs(den))
        sign == IF den < 0 THEN 0 - 1 ELSE 1
    IN  [num |-> sign * (num \div g), den |-> sign * (den \div g)]

RInt(n) == [num |-> n, den |-> 1]
RAdd(x, y) == Rat(x.num * y.den + y.num * x.den, x.den * y.den)
RSub(x, y) == Rat(x.num * y.den - y.num * x.den, x.den * y.den)
RMul(x, y) == Rat(x.num * y.num, x.den * y.den)
RDiv(x, y) == Rat(x.num * y.den, x.den * y.num)
RLess(x, y) == x.num * y.den < y.num * x.den
RLeq(x, y) == x.num * y.den <= y.num * x.den
RMax(x, y) == IF RLess(x, y) THEN y ELSE x
RMin(x, y) == IF RLess(y, x) THEN y ELSE x

RECURSIVE RSum(_)
RSum(q) == IF q = <<>> THEN RInt(0) ELSE RAdd(Head(q), RSum(Tail(q)))

\* statistics.mean of a non-empty sequence
mean(q) == RDiv(RSum(q), RInt(Len(q)))

Ties == {0, 1}

\* round(x, digits), in units of 10^-digits (unit = 10^digits)
Round(x, unit, tie) ==
    LET scaled == RMul(x, RInt(unit))
        low == scaled.num \div scaled.den
        twice == RSub(RMul(scaled, RInt(2)), RInt(2 * low))
    IN  Rat(IF RLess(twice, RInt(1)) THEN low
            ELSE IF RLess(RInt(1), twice) THEN low + 1
            ELSE low + tie,
            unit)

BASELINE_TEAM_DPM == Rat(82, 100)
LOSS_AMPLIFIER == Rat(125, 100)
WIN_AMPLIFIER == Rat(75, 100)
MIN_GAME_SCORE == 0 - 50
TDB_WEIGHT == 40
TDO_WEIGHT == 25
PRPB_WEIGHT == 30
OD_WEIGHT == 35
BOOSTED_WEIGHT == 45
TANK_HP_PER_MIN == 95
TANK_ARMOR_PER_MIN == 3
VISION_EXPECTED_PER_MIN == Rat(9, 10)
VISION_GRIEF_WEIGHT == 8
VISION_SUPPORT_SELF_PENALTY == 0 - 10
TEAM_COLLAPSE_WEIGHT == 70
PLAYER_CLEAN_EARLY_BONUS == 35
TEAM_DEATH_COLLAPSE_MIN == 12
TEAM_VS_PLAYER_DEATH_RATIO == Rat(25, 10)
HARD_CARRY_BONUS == 0 - 30
RANKED_SOLO_QUEUE_ID == 420
AFK_LATE_PENALTY == 90
AFK_MID_PENALTY == 120
AFK_EARLY_PENALTY == 160

\* p.get("timePlayed", game_duration)
TimePlayed(p, game_duration) ==
    IF p.timePlayed = None THEN game_duration ELSE p.timePlayed[1]

\* time_played < game_duration * percent / 100
PlayedLessThan(p, game_duration, percent) ==
    TimePlayed(p, game_duration) * 100 < game_duration * percent

\* (afk, afk_type)
is_afk_or_leaver(player, game_duration) ==
    IF player.leaverPenalty THEN <<TRUE, "penalty">>
    ELSE IF player.afk THEN <<TRUE, "afk_flag">>
    ELSE IF PlayedLessThan(player, game_duration, 65) THEN <<TRUE, "early">>
    ELSE IF PlayedLessThan(player, game_duration, 85) THEN <<TRUE, "mid">>
    ELSE <<FALSE, "">>

\* info["gameDuration"] / 60
DurationMinutes(info) == Rat(info.gameDuration, 60)

\* max(1, p.get("timePlayed", info["gameDuration"]) / 60)
MinutesPlayed(p, info) == RMax(RInt(1), Rat(TimePlayed(p, info.gameDuration), 60))

\* the teammates the team's damage average is taken over
FullTimers_M1(team, info) == team
FullTimers(team, info) ==
    SelectSeq(team, LAMBDA p : ~PlayedLessThan(p, info.gameDuration, 85))

\* p["totalDamageDealtToChampions"] / minutes played
Dpmg(p, info) == RDiv(RInt(p.totalDamageDealtToChampions), MinutesPlayed(p, info))

\* the steps of the ratio
LowDamageStep(ratio) ==
    IF RLeq(Rat(8, 10), ratio) THEN 0
    ELSE IF RLeq(Rat(6, 10), ratio) THEN 5
    ELSE IF RLeq(Rat(4, 10), ratio) THEN 15
    ELSE IF RLeq(Rat(2, 10), ratio) THEN 35
    ELSE 70

\* the function reaches the divisions by duration_minutes (lines 106, 108)
LowDamageDivides(player, info) ==
    /\ player.teamPosition # "UTILITY"
    /\ ~PlayedLessThan(player, info.gameDuration, 85)

compute_low_damage_grief(player, team, info) ==
    IF player.teamPosition = "UTILITY" THEN 0
    ELSE IF PlayedLessThan(player, info.gameDuration, 85) THEN 0
    ELSE LET hp_per_min == RDiv(RInt(player.totalHeal), DurationMinutes(info))
             armor == IF player.armor # None THEN player.armor[1] ELSE player.bonusArmor
             armor_per_min == RDiv(RInt(armor), DurationMinutes(info))
             full == FullTimers(team, info)
             team_dpmg_avg == mean([k \in 1..Len(full) |-> Dpmg(full[k], info)])
         IN  IF RLeq(RInt(TANK_HP_PER_MIN), hp_per_min)
                /\ RLeq(RInt(TANK_ARMOR_PER_MIN), armor_per_min)
             THEN 0
             ELSE IF RLeq(team_dpmg_avg, RInt(0)) THEN 0
             ELSE LowDamageStep(RDiv(Dpmg(player, info), team_dpmg_avg))

compute_vision_grief(player, team, info, prpb, win) ==
    LET player_vspm == RDiv(RInt(player.visionScore), MinutesPlayed(player, info))
        team_vspm_avg ==
            mean([k \in 1..Len(team) |->
                     RDiv(RInt(team[k].visionScore), MinutesPlayed(team[k], info))])
    IN  IF player.teamPosition = "UTILITY"
        THEN IF RLess(player_vspm, VISION_EXPECTED_PER_MIN)
             THEN RInt(VISION_SUPPORT_SELF_PENALTY) ELSE RInt(0)
        ELSE IF RLeq(prpb, RInt(0)) THEN RInt(0)
        ELSE IF RLess(team_vspm_avg, VISION_EXPECTED_PER_MIN) /\ ~win
        THEN RMin(RInt(VISION_GRIEF_WEIGHT),
                  RMul(RSub(VISION_EXPECTED_PER_MIN, team_vspm_avg),
                       RInt(VISION_GRIEF_WEIGHT)))
        ELSE RInt(0)

TeamDeaths(team) == SeqSum([k \in 1..Len(team) |-> team[k].deaths])

compute_team_collapse_M1(team, player) ==
    IF TeamDeaths(team) < TEAM_DEATH_COLLAPSE_MIN THEN 0
    ELSE IF player.deaths <= 2 THEN TEAM_COLLAPSE_WEIGHT
    ELSE IF RLess(RMul(RInt(player.deaths), TEAM_VS_PLAYER_DEATH_RATIO),
                  RInt(TeamDeaths(team)))
    THEN TEAM_COLLAPSE_WEIGHT
    ELSE 0
compute_team_collapse(team, player) ==
    IF TeamDeaths(team) < TEAM_DEATH_COLLAPSE_MIN THEN 0
    ELSE IF player.deaths <= 2 THEN TEAM_COLLAPSE_WEIGHT
    ELSE IF RLeq(RMul(RInt(player.deaths), TEAM_VS_PLAYER_DEATH_RATIO),
                 RInt(TeamDeaths(team)))
    THEN TEAM_COLLAPSE_WEIGHT
    ELSE 0

HARD_CARRY_TEAM_DEATHS == 24

compute_hard_carry_M1(player, team, win) ==
    IF TeamDeaths(team) < HARD_CARRY_TEAM_DEATHS THEN 0
    ELSE IF RLeq(RInt(player.deaths),
                 RMul(mean([k \in 1..Len(team) |-> RInt(team[k].deaths)]), Rat(7, 10)))
    THEN HARD_CARRY_BONUS
    ELSE 0
compute_hard_carry(player, team, win) ==
    IF ~win THEN 0
    ELSE IF TeamDeaths(team) < HARD_CARRY_TEAM_DEATHS THEN 0
    ELSE IF RLeq(RInt(player.deaths),
                 RMul(mean([k \in 1..Len(team) |-> RInt(team[k].deaths)]), Rat(7, 10)))
    THEN HARD_CARRY_BONUS
    ELSE 0

\* ops(p): the objective participation score
ObjectiveScore(p) ==
    p.dragonTakedowns + p.baronTakedowns + p.turretTakedowns
    + p.inhibitorTakedowns + p.riftHeraldTakedowns

\* the penalty of one flagged teammate
AfkPenaltyOf_M1(afk_type) == AFK_LATE_PENALTY
AfkPenaltyOf(afk_type) ==
    IF afk_type = "early" THEN AFK_EARLY_PENALTY
    ELSE IF afk_type = "mid" THEN AFK_MID_PENALTY
    ELSE AFK_LATE_PENALTY

\* the teammates is_afk_or_leaver flags
Flagged(teammates, info) ==
    SelectSeq(teammates, LAMBDA tm : is_afk_or_leaver(tm, info.gameDuration)[1])

\* amplifier = LOSS_AMPLIFIER if not win else WIN_AMPLIFIER
Amplifier(win) == IF ~win THEN LOSS_AMPLIFIER ELSE WIN_AMPLIFIER

\* positive_score + boosted_penalty + hard_carry_bonus, floored
GamePoints_M1(additive, amplifier, boosted_penalty, hard_carry_bonus) ==
    RMax(RMul(RAdd(RAdd(additive, boosted_penalty), RInt(hard_carry_bonus)), amplifier),
         RInt(MIN_GAME_SCORE))
GamePoints(additive, amplifier, boosted_penalty, hard_carry_bonus) ==
    RMax(RAdd(RAdd(RMul(additive, amplifier), boosted_penalty), RInt(hard_carry_bonus)),
         RInt(MIN_GAME_SCORE))

\* next(p for p in participants if p["puuid"] == player_puuid)
PlayerOf(match, player_puuid) ==
    SelectSeq(match.info.participants, LAMBDA p : p.puuid = player_puuid)

\* The exception evaluate_single_game raises, if any
SingleGameRaises(match, player_puuid) ==
    LET info == match.info
        found == PlayerOf(match, player_puuid)
        player == found[1]
        team == SelectSeq(info.participants, LAMBDA p : p.teamId = player.teamId)
    IN  IF found = <<>> THEN Some("StopIteration")
        ELSE IF LowDamageDivides(player, info) /\ info.gameDuration = 0
        THEN Some("ZeroDivisionError")
        ELSE IF LowDamageDivides(player, info) /\ FullTimers(team, info) = <<>>
        THEN Some("StatisticsError")
        ELSE IF info.gameDuration = 0
        THEN Some("ZeroDivisionError")
        ELSE None

\* The dict evaluate_single_game returns when it raises nothing
SingleGameResult(match, player_puuid, tie) ==
    LET info == match.info
        duration_minutes == DurationMinutes(info)
        player == PlayerOf(match, player_puuid)[1]
        team == SelectSeq(info.participants, LAMBDA p : p.teamId = player.teamId)
        teammates == SelectSeq(team, LAMBDA p : p.puuid # player_puuid)
        flagged == Flagged(teammates, info)
        afk_types == [k \in 1..Len(flagged) |->
                         is_afk_or_leaver(flagged[k], info.gameDuration)[2]]
        afk_penalty == SeqSum([k \in 1..Len(afk_types) |-> AfkPenaltyOf(afk_types[k])])
        team_collapse == compute_team_collapse(team, player)
        low_damage_grief == compute_low_damage_grief(player, team, info)
        team_deaths == TeamDeaths(team)
        team_dpm == RDiv(RInt(team_deaths), duration_minutes)
        team_avg_dpm ==
            mean([k \in 1..Len(team) |-> RDiv(RInt(team[k].deaths), duration_minutes)])
        player_dpm == RDiv(RInt(player.deaths), duration_minutes)
        player_ops == ObjectiveScore(player)
        team_ops_avg == mean([k \in 1..Len(team) |-> RInt(ObjectiveScore(team[k]))])
        team_death_burden ==
            RMul(RMax(RInt(0), RSub(team_dpm, BASELINE_TEAM_DPM)), RInt(TDB_WEIGHT))
        outlier(tm) ==
            LET tm_dpm == RDiv(RInt(tm.deaths), duration_minutes)
            IN  IF RLess(RMul(team_avg_dpm, Rat(16, 10)), tm_dpm)
                THEN RMul(RSub(tm_dpm, team_avg_dpm), RInt(TDO_WEIGHT))
                ELSE RInt(0)
        death_outliers == RSum([k \in 1..Len(teammates) |-> outlier(teammates[k])])
        dpm_delta == RSub(team_avg_dpm, player_dpm)
        prpb == IF RLess(RInt(0), dpm_delta) THEN RMul(dpm_delta, RInt(PRPB_WEIGHT))
                ELSE RInt(0)
        clean_early_bonus ==
            IF player.deaths <= 2 /\ team_deaths >= TEAM_DEATH_COLLAPSE_MIN
            THEN PLAYER_CLEAN_EARLY_BONUS ELSE 0
        od == IF RLess(RInt(0), team_ops_avg)
              THEN RMax(RInt(0),
                        RMin(RMul(RSub(RDiv(RInt(player_ops), team_ops_avg), RInt(1)),
                                  RInt(OD_WEIGHT)),
                             RInt(40)))
              ELSE RInt(0)
        win == player.win
        vision_grief == compute_vision_grief(player, team, info, prpb, win)
        additive ==
            RSum(<< team_death_burden, death_outliers, RInt(team_collapse),
                    RInt(clean_early_bonus), prpb, od, RInt(afk_penalty),
                    RInt(low_damage_grief), vision_grief >>)
        boosted_penalty ==
            IF win /\ RLess(team_avg_dpm, player_dpm) /\ RLess(RInt(player_ops), team_ops_avg)
            THEN RSub(RInt(0), RMul(RSub(player_dpm, team_avg_dpm), RInt(BOOSTED_WEIGHT)))
            ELSE RInt(0)
        hard_carry_bonus == compute_hard_carry(player, team, win)
        game_grief_points ==
            GamePoints(additive, Amplifier(win), boosted_penalty, hard_carry_bonus)
    IN  [game_id |-> match.metadata.matchId,
         queue_id |-> info.queueId,
         win |-> win,
         game_grief_points |-> Round(game_grief_points, 100, tie),
         champion |-> player.championName,
         kills |-> player.kills,
         deaths |-> player.deaths,
         assists |-> player.assists,
         duration_min |-> Round(duration_minutes, 10, tie),
         start_time_ms |-> info.gameStartTimestamp,
         team_dpm |-> Round(team_dpm, 100, tie),
         team_avg_dpm |-> Round(team_avg_dpm, 100, tie),
         player_dpm |-> Round(player_dpm, 100, tie),
         player_ops |-> player_ops,
         team_ops_avg |-> Round(team_ops_avg, 100, tie),
         afk_penalty |-> afk_penalty,
         afk_events |-> afk_types,
         low_damage_grief |-> low_damage_grief,
         vision_grief |-> Round(vision_grief, 100, tie),
         components |->
            [team_death_burden |-> Round(team_death_burden, 100, tie),
             death_outliers |-> Round(death_outliers, 100, tie),
             player_relative_bonus |-> Round(prpb, 100, tie),
             objective_disparity |-> Round(od, 100, tie),
             low_damage_grief |-> low_damage_grief,
             afk_penalty |-> afk_penalty,
             vision_grief |-> Round(vision_grief, 100, tie),
             boosted_penalty |-> Round(boosted_penalty, 100, tie),
             team_collapse |-> team_collapse,
             clean_early_bonus |-> clean_early_bonus,
             hard_carry_bonus |-> hard_carry_bonus]]

\* <<"ret", result>> or <<"raise", exception>>
evaluate_single_game(match, player_puuid, tie) ==
    IF SingleGameRaises(match, player_puuid) # None
    THEN <<"raise", SingleGameRaises(match, player_puuid)[1]>>
    ELSE <<"ret", SingleGameResult(match, player_puuid, tie)>>

\* if m["info"].get("queueId") == RANKED_SOLO_QUEUE_ID
IsRankedSolo_M1(m) == TRUE
IsRankedSolo(m) == m.info.queueId = RANKED_SOLO_QUEUE_ID

\* The loop over ranked_matches[:games]: the results so far, or the first
\* exception
RECURSIVE EvaluateEach(_, _, _, _)
EvaluateEach(done, todo, player_puuid, tie) ==
    IF todo = <<>> THEN <<"ret", done>>
    ELSE IF SingleGameRaises(Head(todo), player_puuid) # None
    THEN <<"raise", SingleGameRaises(Head(todo), player_puuid)[1]>>
    ELSE EvaluateEach(Append(done, SingleGameResult(Head(todo), player_puuid, tie)),
                      Tail(todo), player_puuid, tie)

evaluate_grieftracker_M1(matches, player_puuid, games, tie) ==
    LET ranked_matches ==
            SelectSeq(matches, LAMBDA m : IsRankedSolo(m)
                                            /\ SingleGameRaises(m, player_puuid) = None)
        each == EvaluateEach(<<>>, Take(ranked_matches, games), player_puuid, tie)
    IN  <<"ret",
          [grief_index |-> RInt(0), raw_grief_index |-> RInt(0),
           games_analyzed |-> Max(1, Len(each[2])),
           queue |-> "Ranked Solo/Duo",
           games |-> each[2]]>>

evaluate_grieftracker(matches, player_puuid, games, tie) ==
    LET ranked_matches == SelectSeq(matches, IsRankedSolo)
        each == EvaluateEach(<<>>, Take(ranked_matches, games), player_puuid, tie)
        per_game_breakdown == each[2]
        total_grief_index ==
            RSum([k \in 1..Len(per_game_breakdown) |->
                     per_game_breakdown[k].game_grief_points])
        games_count == Max(1, Len(per_game_breakdown))
    IN  IF each[1] = "raise" THEN each
        ELSE <<"ret",
               [grief_index |-> Round(RDiv(total_grief_index, RInt(games_count)), 10, tie),
                raw_grief_index |-> Round(total_grief_index, 10, tie),
                games_analyzed |-> games_count,
                queue |-> "Ranked Solo/Duo",
                games |-> per_game_breakdown]>>

-----------------------------------------------------------------------------
(* Inputs of the grief specifications.  The evaluated player is "me" on     *)
(* team 100; two opponents on team 200 are part of every match.             *)

MaxMates == 2

Someone(puuid, teamId, win) ==
    [puuid |-> puuid, teamId |-> teamId, win |-> win, championName |-> "Ahri",
     kills |-> 0, deaths |-> 0, assists |-> 0, timePlayed |-> None,
     leaverPenalty |-> FALSE, afk |-> FALSE, teamPosition |-> "MIDDLE",
     totalHeal |-> 0, armor |-> None, bonusArmor |-> 0,
     totalDamageDealtToChampions |-> 9000, visionScore |-> 30,
     dragonTakedowns |-> 0, baronTakedowns |-> 0, turretTakedowns |-> 0,
     inhibitorTakedowns |-> 0, riftHeraldTakedowns |-> 0]

GameDurations == {0, 1800}

\* The teammates a team is drawn from (d: the game's duration in seconds)
Mates(d, win) ==
    LET mate == Someone("mate", 100, win)
    IN  { [mate EXCEPT !.deaths = 5, !.turretTakedowns = 1,
                       !.timePlayed = Some((d * 85) \div 100)],
          [mate EXCEPT !.deaths = 12, !.totalDamageDealtToChampions = 3000,
                       !.visionScore = 10],
          [mate EXCEPT !.deaths = 3, !.timePlayed = Some(d \div 2)],
          [mate EXCEPT !.deaths = 4, !.timePlayed = Some((d * 65) \div 100)],
          [mate EXCEPT !.leaverPenalty = TRUE],
          [mate EXCEPT !.afk = TRUE, !.timePlayed = Some(d \div 2)],
          [mate EXCEPT !.totalDamageDealtToChampions = 18000, !.visionScore = 60,
                       !.dragonTakedowns = 2, !.turretTakedowns = 2] }

\* The evaluated player
Profiles(d, win) ==
    LET me == Someone("me", 100, win)
    IN  { [me EXCEPT !.deaths = 3, !.turretTakedowns = 1, !.kills = 4, !.assists = 6],
          [me EXCEPT !.totalDamageDealtToChampions = 18000, !.visionScore = 60,
                     !.dragonTakedowns = 2, !.turretTakedowns = 3],
          [me EXCEPT !.deaths = 10, !.totalDamageDealtToChampions = 1500,
                     !.visionScore = 0],
          [me EXCEPT !.deaths = 2, !.totalDamageDealtToChampions = 4500],
          [me EXCEPT !.teamPosition = "UTILITY", !.deaths = 3, !.visionScore = 90,
                     !.totalDamageDealtToChampions = 1000],
          [me EXCEPT !.teamPosition = "UTILITY", !.deaths = 10, !.visionScore = 5],
          [me EXCEPT !.teamPosition = "TOP", !.deaths = 3, !.totalHeal = 3000,
                     !.armor = Some(120), !.totalDamageDealtToChampions = 1000],
          [me EXCEPT !.teamPosition = "TOP", !.totalHeal = 3000, !.bonusArmor = 120,
                     !.totalDamageDealtToChampions = 0],
          [me EXCEPT !.deaths = 1, !.timePlayed = Some(d \div 2),
                     !.totalDamageDealtToChampions = 0],
          [me EXCEPT !.totalDamageDealtToChampions = 0, !.visionScore = 0],
          [me EXCEPT !.deaths = 12],
          [me EXCEPT !.visionScore = 0] }

Opponents(win) ==
    << [Someone("foe1", 200, ~win) EXCEPT !.deaths = 20, !.visionScore = 100,
            !.totalDamageDealtToChampions = 20000, !.baronTakedowns = 5],
       [Someone("foe2", 200, ~win) EXCEPT !.leaverPenalty = TRUE, !.deaths = 30] >>

GriefMatch(matchId, queueId, gameDuration, team, win) ==
    [metadata |-> [matchId |-> matchId],
     info |-> [queueId |-> queueId, gameDuration |-> gameDuration,
               gameStartTimestamp |-> Some(1000),
               participants |-> <<Opponents(win)[1]>> \o team \o <<Opponents(win)[2]>>]]

\* One-minute games the player dies through while three teammates take the
\* objectives: the boosted penalty alone passes the floor of a game's score
RoutMatches ==
    LET mate == [Someone("mate", 100, TRUE) EXCEPT !.turretTakedowns = 1]
    IN  { GriefMatch("M1", RANKED_SOLO_QUEUE_ID, 60,
                     <<mate, mate, mate,
                       [Someone("me", 100, TRUE) EXCEPT !.deaths = n]>>, TRUE) :
             n \in {6, 7, 10} }

GameMatches ==
    RoutMatches \cup
    UNION { { GriefMatch("M1", RANKED_SOLO_QUEUE_ID, d, mates \o <<me>>, win) :
                 me \in Profiles(d, win),
                 mates \in UNION { [1..n -> Mates(d, win)] : n \in 0..MaxMates } } :
            d \in GameDurations, win \in BOOLEAN }

InitGame ==
    /\ clock = 0
    /\ callIn \in [match : GameMatches, player_puuid : {"me"}]
    /\ callOut = <<"pending">>
    /\ BotIdle
    /\ MmrIdle
    /\ EstIdle

SingleGameCall ==
    /\ callOut = <<"pending">>
    /\ \E tie \in Ties :
          callOut' = <<"game", evaluate_single_game(callIn.match, callIn.player_puuid, tie)>>
    /\ UNCHANGED <<clock, callIn, botVars, mmrVars, estVars>>

NextGame == SingleGameCall

SpecGame == InitGame /\ [][NextGame]_vars

\* The stored matches evaluate_grieftracker is called with
TrackerMatches ==
    LET lost == Someone("me", 100, FALSE)
        won == Someone("me", 100, TRUE)
        mate == Someone("mate", 100, FALSE)
    IN  { GriefMatch("M1", RANKED_SOLO_QUEUE_ID, 1800,
                     <<[mate EXCEPT !.deaths = 12], [lost EXCEPT !.deaths = 3]>>, FALSE),
          GriefMatch("M2", RANKED_SOLO_QUEUE_ID, 1800,
                     <<[won EXCEPT !.deaths = 1]>>, TRUE),
          GriefMatch("M3", FLEX_QUEUE, 1800, <<[lost EXCEPT !.deaths = 7]>>, FALSE),
          GriefMatch("M4", RANKED_SOLO_QUEUE_ID, 1800, <<mate>>, FALSE),
          GriefMatch("M5", 450, 1200, <<mate>>, FALSE),
          GriefMatch("M6", RANKED_SOLO_QUEUE_ID, 0, <<lost>>, FALSE) }

TrackerLists == UNION { [1..n -> TrackerMatches] : n \in 0..MaxMatches }

TrackerGames == {0, 1, 2, 10}

InitGrief ==
    /\ clock = 0
    /\ callIn \in [matches : TrackerLists, player_puuid : {"me"}, games : TrackerGames]
    /\ callOut = <<"pending">>
    /\ BotIdle
    /\ MmrIdle
    /\ EstIdle

GriefTrackerCall ==
    /\ callOut = <<"pending">>
    /\ \E tie \in Ties :
          callOut' = <<"grief", evaluate_grieftracker(callIn.matches, callIn.player_puuid,
                                                      callIn.games, tie)>>
    /\ UNCHANGED <<clock, callIn, botVars, mmrVars, estVars>>

NextGrief == GriefTrackerCall

SpecGrief == InitGrief /\ [][NextGrief]_vars

-----------------------------------------------------------------------------
(* Properties of the grief scorer.                                          *)

GriefDone == callOut[1] = "grief"
GriefReturned == GriefDone /\ callOut[2][1] = "ret"
GriefRaised == GriefDone /\ callOut[2][1] = "raise"

\* Positions of the ranked-solo matches in the caller's list, in its order
RankedAt == { k \in 1..Len(callIn.matches) : callIn.matches[k].info.queueId = 420 }

\* Positions of the first min(limit, number of ranked-solo matches) of them
WindowAt == { k \in RankedAt : Cardinality({ j \in RankedAt : j <= k }) <= callIn.games }

\* The match ids at a set of positions, in the list's order
RECURSIVE IdsAt(_, _)
IdsAt(at, from) ==
    IF from > Len(callIn.matches) THEN <<>>
    ELSE IF from \in at
    THEN <<callIn.matches[from].metadata.matchId>> \o IdsAt(at, from + 1)
    ELSE IdsAt(at, from + 1)

HasPlayer(m) == \E k \in 1..Len(m.info.participants) :
                    m.info.participants[k].puuid = callIn.player_puuid

\* C25: evaluate_grieftracker evaluates exactly the first min(limit, number
\* of ranked-solo matches) ranked-solo (queue 420) matches of the caller's
\* list, in the caller's order; a match of another queue is never evaluated
\* and does not count toward the limit.
C25_RankedFirst ==
    GriefReturned =>
        LET games == callOut[2][2].games
        IN  /\ [k \in 1..Len(games) |-> games[k].game_id] = IdsAt(WindowAt, 1)
            /\ \A k \in 1..Len(games) : games[k].queue_id = 420
            /\ Len(games) = Min(callIn.games, Cardinality(RankedAt))

\* The limit cuts a list of two ranked games: only the first is evaluated
C25_Witness ==
    /\ GriefReturned
    /\ Cardinality(RankedAt) = 2
    /\ callIn.games = 1
    /\ Len(callOut[2][2].games) = 1
    /\ callOut[2][2].games[1].game_id = callIn.matches[1].metadata.matchId

\* C26: when the evaluated player is not among the participants of a match
\* that is evaluated, the call raises (StopIteration, unless an earlier
\* match of the window already raised) and returns no partial result.
C26_MissingPlayerRaises ==
    GriefDone =>
        LET missing == { k \in WindowAt : ~HasPlayer(callIn.matches[k]) }
            before == { k \in WindowAt : \A j \in missing : k < j }
        IN  missing # {} =>
                /\ callOut[2][1] = "raise"
                /\ (\A k \in before : callIn.matches[k].info.gameDuration > 0)
                        => callOut[2][2] = "StopIteration"

\* A game with the player was evaluated before the one without them
C26_Witness ==
    /\ GriefRaised
    /\ callOut[2][2] = "StopIteration"
    /\ Len(callIn.matches) = 2
    /\ HasPlayer(callIn.matches[1])
    /\ callIn.matches[1].info.queueId = 420
    /\ callIn.matches[1].info.gameDuration > 0
    /\ ~HasPlayer(callIn.matches[2])
    /\ callIn.matches[2].info.queueId = 420
    /\ callIn.games >= 2

GameDone == callOut[1] = "game"
GameReturned == GameDone /\ callOut[2][1] = "ret"

\* C27: for every match that contains the evaluated player, degenerate or
\* not (game duration 0, no deaths, no damage, no objectives),
\* evaluate_single_game returns a result instead of raising.
C27_NeverRaises ==
    (GameDone /\ HasPlayer(callIn.match)) => callOut[2][1] = "ret"

\* The additive sub-metrics as the result reports them (two decimals each)
ReportedSum(c) ==
    RSum(<< c.team_death_burden, c.death_outliers, RInt(c.team_collapse),
            RInt(c.clean_early_bonus), c.player_relative_bonus, c.objective_disparity,
            RInt(c.afk_penalty), RInt(c.low_damage_grief), c.vision_grief >>)

\* |x - y| <= eps
Within(x, y, eps) == RLeq(RSub(x, y), eps) /\ RLeq(RSub(y, x), eps)

\* C28: game_grief_points = max(-50, amplifier * (sum of the additive
\* sub-metrics) + boosted_penalty + hard_carry_bonus) with amplifier 1.25 on
\* a loss and 0.75 on a win, not applied to the boosted and hard-carry
\* terms; the score is never below -50.  The reported sub-metrics are rounded
\* to two decimals, hence the comparison within 0.05.
C28_Aggregation ==
    GameReturned =>
        LET r == callOut[2][2]
            c == r.components
            amplifier == IF r.win THEN Rat(75, 100) ELSE Rat(125, 100)
            total == RAdd(RAdd(RMul(amplifier, ReportedSum(c)), c.boosted_penalty),
                          RInt(c.hard_carry_bonus))
        IN  /\ Within(r.game_grief_points, RMax(RInt(0 - 50), total), Rat(5, 100))
            /\ RLeq(RInt(0 - 50), r.game_grief_points)

\* A won game whose boosted penalty takes the sum below the floor
C28_Witness ==
    /\ GameReturned
    /\ callOut[2][2].win
    /\ RLess(RInt(0), ReportedSum(callOut[2][2].components))
    /\ RLess(RAdd(RMul(Rat(75, 100), ReportedSum(callOut[2][2].components)),
                  callOut[2][2].components.boosted_penalty), RInt(0 - 50))
    /\ callOut[2][2].game_grief_points = RInt(0 - 50)

\* C29: the AFK/leaver penalty that enters a game's score is at most 60% of
\* the pre-boost positive score (the amplified sum of the additive
\* sub-metrics, the penalty included), however many teammates are flagged.
C29_AfkCapped ==
    GameReturned =>
        LET r == callOut[2][2]
            amplifier == IF r.win THEN Rat(75, 100) ELSE Rat(125, 100)
            positive_score == RMul(amplifier, ReportedSum(r.components))
        IN  r.afk_penalty > 0 =>
                RLeq(RInt(r.afk_penalty),
                     RAdd(RMul(Rat(60, 100), positive_score), Rat(5, 100)))

-----------------------------------------------------------------------------
(* bot.classify_game: the label of one evaluated game, from the components  *)
(* of its result.  The second element of the returned pair is the coloured  *)
(* circle shown next to the label, written here as the colour's name.       *)

team_impact_M1(c) ==
    RSum(<< c.team_death_burden, c.death_outliers, RInt(c.afk_penalty) >>)
team_impact(c) ==
    RSum(<< c.team_death_burden, c.death_outliers, RInt(c.team_collapse),
            RInt(c.afk_penalty) >>)

player_negative(c) ==
    RAdd(RInt(c.low_damage_grief), RMax(RInt(0), c.vision_grief))

player_positive(c) ==
    RSum(<< c.player_relative_bonus, RInt(c.clean_early_bonus), c.objective_disparity,
            RInt(Abs(c.hard_carry_bonus)) >>)

classify_game_M1(game) ==
    LET c == game.components
        impact == team_impact(c)
        negative == player_negative(c)
        positive == player_positive(c)
    IN  IF game.win
        THEN IF RLess(impact, RInt(5)) /\ RLeq(negative, RInt(5))
             THEN <<"CAKE WALK", "green">>
             ELSE IF RLeq(RInt(15), impact) /\ RLess(negative, positive)
             THEN <<"HARD CARRY", "yellow">>
             ELSE IF RLess(positive, negative)
             THEN <<"BOOSTED", "blue">>
             ELSE <<"FAIR WIN", "green">>
        ELSE IF RLeq(RInt(15), impact) /\ RLess(negative, positive)
             THEN <<"GRIEFED", "red">>
             ELSE IF RLess(impact, RInt(10)) /\ RLeq(negative, RInt(5))
             THEN <<"FAIR LOSS", "white">>
             ELSE IF RLess(positive, negative)
             THEN <<"INTER", "black">>
             ELSE <<"LOST CAUSE", "orange">>
classify_game(game) ==
    LET c == game.components
        impact == team_impact(c)
        negative == player_negative(c)
        positive == player_positive(c)
    IN  IF game.win
        THEN IF RLess(impact, RInt(5)) /\ RLeq(negative, RInt(5))
             THEN <<"CAKE WALK", "green">>
             ELSE IF RLeq(RInt(15), impact) /\ RLess(negative, positive)
             THEN <<"HARD CARRY", "yellow">>
             ELSE IF RLess(positive, negative)
             THEN <<"BOOSTED", "blue">>
             ELSE <<"FAIR WIN", "green">>
        ELSE IF RLeq(RInt(15), impact) /\ RLess(negative, positive)
             THEN <<"GRIEFED", "red">>
             ELSE IF RLess(positive, negative)
             THEN <<"INTER", "black">>
             ELSE IF RLess(impact, RInt(10)) /\ RLeq(negative, RInt(5))
             THEN <<"FAIR LOSS", "white">>
             ELSE <<"LOST CAUSE", "orange">>

\* The component vectors classify_game is called with: values on both sides
\* of the thresholds 5, 10 and 15
ComponentVectors ==
    [team_death_burden : {RInt(0), Rat(499, 100), RInt(10)},
     death_outliers : {RInt(0), RInt(5)},
     team_collapse : {0, TEAM_COLLAPSE_WEIGHT},
     afk_penalty : {0, AFK_LATE_PENALTY},
     low_damage_grief : {0, 5, 30},
     vision_grief : {RInt(VISION_SUPPORT_SELF_PENALTY), RInt(0), RInt(VISION_GRIEF_WEIGHT)},
     player_relative_bonus : {RInt(0), RInt(5), Rat(601, 100)},
     clean_early_bonus : {0, PLAYER_CLEAN_EARLY_BONUS},
     objective_disparity : {RInt(0), RInt(40)},
     hard_carry_bonus : {0, HARD_CARRY_BONUS},
     boosted_penalty : {RInt(0)}]

InitClassify ==
    /\ clock = 0
    /\ callIn \in [win : BOOLEAN, components : ComponentVectors]
    /\ callOut = <<"pending">>
    /\ BotIdle
    /\ MmrIdle
    /\ EstIdle

ClassifyCall ==
    /\ callOut = <<"pending">>
    /\ callOut' = <<"class", classify_game(callIn)>>
    /\ UNCHANGED <<clock, callIn, botVars, mmrVars, estVars>>

NextClassify == ClassifyCall

SpecClassify == InitClassify /\ [][NextClassify]_vars

Classified == callOut[1] = "class"

\* C30: a lost game is classified GRIEFED when team impact is at least 15 and
\* player-positive exceeds player-negative, and INTER when player-negative
\* exceeds player-positive.
C30_LossLabels ==
    (Classified /\ ~callIn.win) =>
        LET c == callIn.components
            impact == RSum(<< c.team_death_burden, c.death_outliers,
                              RInt(c.team_collapse), RInt(c.afk_penalty) >>)
            negative == RAdd(RInt(c.low_damage_grief),
                             IF RLess(RInt(0), c.vision_grief) THEN c.vision_grief
                             ELSE RInt(0))
            positive == RSum(<< c.player_relative_bonus, RInt(c.clean_early_bonus),
                                c.objective_disparity,
                                RInt(IF c.hard_carry_bonus < 0 THEN 0 - c.hard_carry_bonus
                                     ELSE c.hard_carry_bonus) >>)
        IN  /\ (RLeq(RInt(15), impact) /\ RLess(negative, positive))
                    => callOut[2][1] = "GRIEFED"
            /\ RLess(positive, negative) => callOut[2][1] = "INTER"

\* A lost game with low team impact where the player's negatives, small as
\* they are, still exceed the positives: INTER, not FAIR LOSS
C30_Witness ==
    /\ Classified
    /\ ~callIn.win
    /\ callOut[2][1] = "INTER"
    /\ RLess(team_impact(callIn.components), RInt(10))
    /\ RLeq(player_negative(callIn.components), RInt(5))

-----------------------------------------------------------------------------
(* The label of an evaluated game: grieftracker_cmd hands every game of the *)
(* result of the scorer to classify_game (through summarize_games).         *)

\* classify_game(g) for the game a call returned; nothing when it raised
LabelOf(out) == IF out[1] = "ret" THEN Some(classify_game(out[2])) ELSE None

InitLabel == InitGame

LabelCall ==
    /\ callOut = <<"pending">>
    /\ \E tie \in Ties :
          LET out == evaluate_single_game(callIn.match, callIn.player_puuid, tie)
          IN  callOut' = <<"label", out, LabelOf(out)>>
    /\ UNCHANGED <<clock, callIn, botVars, mmrVars, estVars>>

NextLabel == LabelCall

SpecLabel == InitLabel /\ [][NextLabel]_vars

Labelled == callOut[1] = "label" /\ callOut[2][1] = "ret"

\* The evaluated game triggered the team-collapse bonus, with no AFK and no
\* low-damage event
CollapseOnly ==
    /\ Labelled
    /\ callOut[2][2].components.team_collapse # 0
    /\ callOut[2][2].components.afk_penalty = 0
    /\ callOut[2][2].components.low_damage_grief = 0

\* C31 as stated: such a game is classified CAKE WALK when the player won
\* and GRIEFED when the player lost.
C31_CollapseCakeWalk ==
    CollapseOnly =>
        callOut[3][1][1] = (IF callOut[2][2].win THEN "CAKE WALK" ELSE "GRIEFED")

\* C31, amended: a game that triggered the team-collapse bonus while the
\* player died at most twice, with no AFK and no low-damage event, is
\* classified HARD CARRY when the player won and GRIEFED when the player
\* lost.
C31_CollapseHardCarry ==
    (CollapseOnly /\ callOut[2][2].deaths <= 2) =>
        callOut[3][1][1] = (IF callOut[2][2].win THEN "HARD CARRY" ELSE "GRIEFED")

\* A won game in which the team collapsed and the player died at most twice
C31_Witness ==
    /\ CollapseOnly
    /\ callOut[2][2].win
    /\ callOut[2][2].deaths <= 2
    /\ callOut[3][1][1] = "HARD CARRY"

-----------------------------------------------------------------------------
(* riot._request_with_retry: GET with retry on 429.  callIn holds the       *)
(* answers the server gives to successive requests and max_retries; callOut *)
(* holds the loop's state: the requests issued, the seconds slept and, once *)
(* the call has ended, its outcome.                                         *)

MaxRetries == 2

\* A server response: status, Retry-After header, Content-Type, body
Response(status, retry_after, json) ==
    [status_code |-> status, retry_after |-> retry_after, json |-> json,
     body |-> "body"]

\* r.raise_for_status(): HTTPError for a 4xx or a 5xx status
RaisesForStatus(r) == 400 <= r.status_code /\ r.status_code < 600

handle_response(r) ==
    IF r.status_code \in {400, 401, 403, 404, 429} THEN <<"raise", "RuntimeError">>
    ELSE IF RaisesForStatus(r) THEN <<"raise", "HTTPError">>
    ELSE IF r.json THEN <<"ret", <<"json", r.body>>>>
    ELSE <<"ret", <<"text", r.body>>>>

\* wait = int(ra) if (ra and ra.isdigit()) else 2
IsDigits(ra) == ra \in {"1", "3"}
IntOf(ra) == IF ra = "1" THEN 1 ELSE 3
Wait(r) ==
    IF r.retry_after # None /\ r.retry_after[1] # "" /\ IsDigits(r.retry_after[1])
    THEN IntOf(r.retry_after[1]) ELSE 2

\* The loop's state before the first request
RetryStart == [requests |-> 0, slept |-> 0, outcome |-> None]

RetryState == IF callOut = <<"pending">> THEN RetryStart ELSE callOut[2]

\* The answers of the server
Responses ==
    { Response(200, None, TRUE), Response(200, None, FALSE),
      Response(304, None, FALSE), Response(404, None, TRUE),
      Response(500, None, FALSE), Response(429, None, TRUE),
      Response(429, Some("3"), TRUE), Response(429, Some("Wed, 21 Oct 2026"), TRUE),
      Response(429, Some(""), TRUE) }

InitRetry ==
    /\ clock = 0
    /\ callIn \in [max_retries : 0..MaxRetries,
                   responses : [1..MaxRetries -> Responses]]
    /\ callOut = <<"pending">>
    /\ BotIdle
    /\ MmrIdle
    /\ EstIdle

RetryRunning ==
    /\ callOut = <<"pending">> \/ callOut[1] = "retry"
    /\ RetryState.outcome = None

\* One pass of the loop: the request, and the sleep after a 429
RetryGet429 ==
    /\ RetryRunning
    /\ RetryState.requests < callIn.max_retries
    /\ LET r == callIn.responses[RetryState.requests + 1]
       IN  /\ r.status_code = 429
           /\ callOut' = <<"retry", [requests |-> RetryState.requests + 1,
                                     slept |-> RetryState.slept + Wait(r),
                                     outcome |-> None]>>
    /\ UNCHANGED <<clock, callIn, botVars, mmrVars, estVars>>

\* One pass of the loop: the request, and return _handle_response(r)
RetryGetOther ==
    /\ RetryRunning
    /\ RetryState.requests < callIn.max_retries
    /\ LET r == callIn.responses[RetryState.requests + 1]
       IN  /\ r.status_code # 429
           /\ callOut' = <<"retry", [requests |-> RetryState.requests + 1,
                                     slept |-> RetryState.slept,
                                     outcome |-> Some(handle_response(r))]>>
    /\ UNCHANGED <<clock, callIn, botVars, mmrVars, estVars>>

\* The loop is over: raise RuntimeError("HTTP 429 too many retries ...")
RetryGiveUp ==
    /\ RetryRunning
    /\ RetryState.requests = callIn.max_retries
    /\ callOut' = <<"retry", [RetryState EXCEPT !.outcome = Some(<<"raise", "RuntimeError">>)]>>
    /\ UNCHANGED <<clock, callIn, botVars, mmrVars, estVars>>

NextRetry == RetryGet429 \/ RetryGetOther \/ RetryGiveUp

SpecRetry == InitRetry /\ [][NextRetry]_vars

\* The interpreter runs the call to its end
FairRetry == SpecRetry /\ WF_vars(NextRetry)

RetryEnded == callOut # <<"pending">> /\ callOut[2].outcome # None

\* The responses the call has received so far
Received == SubSeq(callIn.responses, 1, RetryState.requests)

\* C33: the call issues at most max_retries requests, stops at the first
\* response that is not a 429, returning its body when the status is 2xx and
\* raising on any other status, and raises RuntimeError after max_retries
\* consecutive 429 responses.
C33_RetryOutcome ==
    /\ RetryState.requests <= callIn.max_retries
    /\ \A k \in 1..(Len(Received) - 1) : Received[k].status_code = 429
    /\ RetryEnded =>
          LET last == IF Received = <<>> THEN None ELSE Some(Received[Len(Received)])
              out == RetryState.outcome[1]
          IN  IF last # None /\ last[1].status_code # 429
              THEN IF 200 <= last[1].status_code /\ last[1].status_code < 300
                   THEN out[1] = "ret" /\ out[2][2] = last[1].body
                   ELSE out[1] = "raise"
              ELSE /\ out = <<"raise", "RuntimeError">>
                   /\ Len(Received) = callIn.max_retries

\* The call ends, whatever the server answers
RetryTerminates == <>RetryEnded

-----------------------------------------------------------------------------
(* Properties of the sub-metrics, on the calls of SpecGame.                 *)

\* The evaluated player and the other members of the player's team, as the
\* caller's match lists them
Evaluated == CHOOSE p \in { callIn.match.info.participants[k] :
                        k \in 1..Len(callIn.match.info.participants) } :
          p.puuid = callIn.player_puuid

OwnTeam == SelectSeq(callIn.match.info.participants, LAMBDA p : p.teamId = Evaluated.teamId)

OtherMates == SelectSeq(OwnTeam, LAMBDA p : p.puuid # callIn.player_puuid)

\* The seconds a participant played, the whole game when the field is absent
Played(p) == IF p.timePlayed = <<>> THEN callIn.match.info.gameDuration
             ELSE p.timePlayed[1]

\* The penalty the claim gives one teammate
PenaltyFor(p) ==
    IF p.leaverPenalty \/ p.afk THEN 90
    ELSE IF Played(p) * 100 < callIn.match.info.gameDuration * 65 THEN 160
    ELSE IF Played(p) * 100 < callIn.match.info.gameDuration * 85 THEN 120
    ELSE 0

\* C34: only the teammates other than the evaluated player are examined; a
\* teammate with the leaver-penalty or AFK flag adds 90 whatever the time
\* played, otherwise one below 65% of the duration adds 160 and one below
\* 85% adds 120; the penalty is 0 when no teammate is flagged.
C34_AfkPenalty ==
    GameReturned =>
        /\ callOut[2][2].afk_penalty =
              SeqSum([k \in 1..Len(OtherMates) |-> PenaltyFor(OtherMates[k])])
        /\ callOut[2][2].components.afk_penalty = callOut[2][2].afk_penalty
        /\ Len(callOut[2][2].afk_events) =
              Cardinality({ k \in 1..Len(OtherMates) : PenaltyFor(OtherMates[k]) # 0 })

\* An early leaver next to a teammate at exactly 65% of the duration, while
\* an opponent carries the leaver flag
C34_Witness ==
    /\ GameReturned
    /\ callOut[2][2].afk_penalty = 160 + 120
    /\ Len(OtherMates) = 2
    /\ \E k \in 1..2 : Played(OtherMates[k]) * 100 = callIn.match.info.gameDuration * 65

\* Damage to champions per minute played, a minute at least
DamageRate(p) ==
    RDiv(RInt(p.totalDamageDealtToChampions), RMax(RInt(1), Rat(Played(p), 60)))

PlayedMost(p) == Played(p) * 100 >= callIn.match.info.gameDuration * 85

\* The members of the player's team with at least 85% of the duration played
Stayed == SelectSeq(OwnTeam, PlayedMost)

\* Both durability thresholds: 95 healing and 3 armor per minute of the game
IsTank(p) ==
    LET armor == IF p.armor # <<>> THEN p.armor[1] ELSE p.bonusArmor
    IN  /\ p.totalHeal * 60 >= 95 * callIn.match.info.gameDuration
        /\ armor * 60 >= 3 * callIn.match.info.gameDuration

\* The ratio of the player's damage rate to the average of those who stayed
DamageRatio ==
    RDiv(DamageRate(Evaluated),
         RDiv(RSum([k \in 1..Len(Stayed) |-> DamageRate(Stayed[k])]), RInt(Len(Stayed))))

\* C35: low-damage grief is 0 for a support, for a player with less than 85%
\* of the duration played and for a player who meets both tank thresholds;
\* otherwise it is 0, 5, 15, 35 or 70 as the ratio of the player's damage per
\* minute to the average over the team members with at least 85% played is
\* at least 0.8, 0.6, 0.4, 0.2 or below; that average is never taken over
\* an empty set.
C35_LowDamage ==
    GameReturned =>
        LET grief == callOut[2][2].low_damage_grief
        IN  IF \/ Evaluated.teamPosition = "UTILITY"
               \/ ~PlayedMost(Evaluated)
               \/ IsTank(Evaluated)
            THEN grief = 0
            ELSE /\ Stayed # <<>>
                 /\ \/ \A k \in 1..Len(Stayed) : Stayed[k].totalDamageDealtToChampions = 0
                    \/ grief = (IF RLeq(Rat(8, 10), DamageRatio) THEN 0
                                ELSE IF RLeq(Rat(6, 10), DamageRatio) THEN 5
                                ELSE IF RLeq(Rat(4, 10), DamageRatio) THEN 15
                                ELSE IF RLeq(Rat(2, 10), DamageRatio) THEN 35
                                ELSE 70)

\* A ratio of exactly 0.4, next to a teammate who left and is not averaged
C35_Witness ==
    /\ GameReturned
    /\ callOut[2][2].low_damage_grief = 15
    /\ DamageRatio = Rat(4, 10)
    /\ Len(Stayed) < Len(OwnTeam)

\* The deaths of the player's team, the player's included
OwnTeamDeaths == SeqSum([k \in 1..Len(OwnTeam) |-> OwnTeam[k].deaths])

\* The team collapsed around the player
Collapsed ==
    /\ OwnTeamDeaths >= 12
    /\ Evaluated.deaths <= 2 \/ OwnTeamDeaths * 10 >= Evaluated.deaths * 25

\* C36: the collapse bonus (70) is awarded iff the team's deaths reach 12 and
\* the player died at most twice or the team's deaths are at least 2.5 times
\* the player's; the clean-early bonus (35) iff the player died at most twice
\* and the collapse was triggered; so a non-zero clean_early_bonus implies a
\* non-zero team_collapse.
C36_CollapseBonuses ==
    GameReturned =>
        LET c == callOut[2][2].components
        IN  /\ c.team_collapse = (IF Collapsed THEN 70 ELSE 0)
            /\ c.clean_early_bonus = (IF Collapsed /\ Evaluated.deaths <= 2 THEN 35 ELSE 0)
            /\ c.clean_early_bonus # 0 => c.team_collapse # 0

\* The team's deaths are exactly 2.5 times those of a player who died often
C36_Witness ==
    /\ GameReturned
    /\ Evaluated.deaths > 2
    /\ OwnTeamDeaths * 10 = Evaluated.deaths * 25
    /\ callOut[2][2].components.team_collapse = 70
    /\ callOut[2][2].components.clean_early_bonus = 0

\* The objectives a participant took part in
Objectives(p) ==
    p.dragonTakedowns + p.baronTakedowns + p.turretTakedowns
        + p.inhibitorTakedowns + p.riftHeraldTakedowns

OwnTeamObjectives == SeqSum([k \in 1..Len(OwnTeam) |-> Objectives(OwnTeam[k])])

\* Won, in a team with 24 deaths or more, with at most 70% of its average
HardCarried ==
    /\ Evaluated.win
    /\ OwnTeamDeaths >= 24
    /\ Evaluated.deaths * 10 * Len(OwnTeam) <= 7 * OwnTeamDeaths

\* Won, dying more than the team's average and taking fewer objectives
WasBoosted ==
    /\ Evaluated.win
    /\ Evaluated.deaths * Len(OwnTeam) > OwnTeamDeaths
    /\ Objectives(Evaluated) * Len(OwnTeam) < OwnTeamObjectives

\* C37: the hard-carry bonus is -30 iff the player won, the team died 24
\* times or more and the player's deaths are at most 70% of the team's
\* average, else 0; the boosted penalty is negative iff the player won, died
\* more per minute than the team's average and took fewer objectives than
\* the team's average, else 0; so both are 0 on a loss, never positive, and
\* never both non-zero.
C37_WinOnlyTerms ==
    GameReturned =>
        LET c == callOut[2][2].components
        IN  /\ c.hard_carry_bonus = (IF HardCarried THEN 0 - 30 ELSE 0)
            /\ IF WasBoosted THEN RLess(c.boosted_penalty, RInt(0))
               ELSE c.boosted_penalty = RInt(0)
            /\ ~callOut[2][2].win => c.hard_carry_bonus = 0 /\ c.boosted_penalty = RInt(0)
            /\ c.hard_carry_bonus = 0 \/ c.boosted_penalty = RInt(0)

\* A lost game that would earn the hard-carry bonus had it been won
C37_Witness ==
    /\ GameReturned
    /\ ~callOut[2][2].win
    /\ OwnTeamDeaths >= 24
    /\ Evaluated.deaths * 10 * Len(OwnTeam) <= 7 * OwnTeamDeaths
    /\ callOut[2][2].components.hard_carry_bonus = 0

-----------------------------------------------------------------------------
(* bot.summarize_games: the number of games per label.                      *)

Labels == { "CAKE WALK", "FAIR WIN", "HARD CARRY", "FAIR LOSS",
            "GRIEFED", "LOST CAUSE", "INTER", "BOOSTED" }

\* counts[label] += 1, for each game in turn
RECURSIVE CountLabels(_, _)
CountLabels(counts, games) ==
    IF games = <<>> THEN counts
    ELSE CountLabels([counts EXCEPT ![classify_game(Head(games))[1]] = @ + 1],
                     Tail(games))

summarize_games_M1(games) ==
    [label \in Labels |-> IF \E k \in 1..Len(games) : classify_game(games[k])[1] = label
                          THEN 1 ELSE 0]
summarize_games(games) == CountLabels([label \in Labels |-> 0], games)

\* A game with no component but those given
Quiet == [team_death_burden |-> RInt(0), death_outliers |-> RInt(0), team_collapse |-> 0,
          afk_penalty |-> 0, low_damage_grief |-> 0, vision_grief |-> RInt(0),
          player_relative_bonus |-> RInt(0), clean_early_bonus |-> 0,
          objective_disparity |-> RInt(0), hard_carry_bonus |-> 0,
          boosted_penalty |-> RInt(0)]

\* Four kinds of game, each won and lost: one game per label
Showcase ==
    LET collapse == [Quiet EXCEPT !.team_collapse = TEAM_COLLAPSE_WEIGHT,
                                  !.clean_early_bonus = PLAYER_CLEAN_EARLY_BONUS]
        weak == [Quiet EXCEPT !.low_damage_grief = 30]
        leaver == [Quiet EXCEPT !.afk_penalty = AFK_LATE_PENALTY]
    IN  << [win |-> TRUE, components |-> Quiet], [win |-> TRUE, components |-> collapse],
           [win |-> TRUE, components |-> weak], [win |-> TRUE, components |-> leaver],
           [win |-> FALSE, components |-> Quiet], [win |-> FALSE, components |-> collapse],
           [win |-> FALSE, components |-> weak], [win |-> FALSE, components |-> leaver] >>

SeqRange(q) == { q[k] : k \in 1..Len(q) }

\* The lists summarize_games is called with: every single game, the lists of
\* up to MaxMatches showcase games, and the beginnings of the showcase
GameLists ==
    { <<g>> : g \in [win : BOOLEAN, components : ComponentVectors] }
        \cup UNION { [1..n -> SeqRange(Showcase)] : n \in 0..MaxMatches }
        \cup { SubSeq(Showcase, 1, n) : n \in 0..Len(Showcase) }

InitSummary ==
    /\ clock = 0
    /\ callIn \in [games : GameLists]
    /\ callOut = <<"pending">>
    /\ BotIdle
    /\ MmrIdle
    /\ EstIdle

SummarizeCall ==
    /\ callOut = <<"pending">>
    /\ callOut' = <<"summary", summarize_games(callIn.games)>>
    /\ UNCHANGED <<clock, callIn, botVars, mmrVars, estVars>>

NextSummary == SummarizeCall

SpecSummary == InitSummary /\ [][NextSummary]_vars

Summarized == callOut[1] = "summary"

\* The games of the list the player won
WonAt == { k \in 1..Len(callIn.games) : callIn.games[k].win }

\* C38: every game gets exactly one of the eight labels, a won game one of
\* CAKE WALK, HARD CARRY, BOOSTED, FAIR WIN and a lost game one of GRIEFED,
\* INTER, FAIR LOSS, LOST CAUSE, so the counts of summarize_games sum to the
\* number of games (and those of the four win labels to the games won).
C38_EightWay ==
    Summarized =>
        LET counts == callOut[2]
        IN  /\ DOMAIN counts = { "CAKE WALK", "HARD CARRY", "BOOSTED", "FAIR WIN",
                                 "GRIEFED", "INTER", "FAIR LOSS", "LOST CAUSE" }
            /\ \A label \in DOMAIN counts : counts[label] >= 0
            /\ counts["CAKE WALK"] + counts["HARD CARRY"] + counts["BOOSTED"]
                  + counts["FAIR WIN"] = Cardinality(WonAt)
            /\ counts["GRIEFED"] + counts["INTER"] + counts["FAIR LOSS"]
                  + counts["LOST CAUSE"] = Len(callIn.games) - Cardinality(WonAt)

\* Eight games, eight labels: each label is produced by some game
C38_Witness ==
    /\ Summarized
    /\ Len(callIn.games) = 8
    /\ \A label \in DOMAIN callOut[2] : callOut[2][label] = 1

-----------------------------------------------------------------------------
(* bot.grieftracker_cmd: the command's answer for a Riot id, given the      *)
(* matches stored for it: the first sentence of a short answer, or the data *)
(* the lines of the report are built from.                                  *)

GriefPlayers == {"me#1"}

Said(text) == [kind |-> "text", text |-> text]

\* The answer once evaluate_grieftracker has ended with result
GriefReply(riot_id, result, tie) ==
    IF result[1] = "raise"
    THEN [kind |-> "error", text |-> "Error running grief tracker", type |-> result[2]]
    ELSE IF result[2].games_analyzed = 0
    THEN Said("No ranked solo/duo games found.")
    ELSE CHOOSE reply \in
             { [kind |-> "report", player |-> riot_id,
                games_analyzed |-> result[2].games_analyzed,
                games |-> Len(result[2].games),
                avg_grief |->
                    Round(RDiv(RSum([k \in 1..Len(loss_games) |->
                                        loss_games[k].game_grief_points]),
                               RInt(Max(1, Len(loss_games)))), 10, tie),
                summary |-> summarize_games(result[2].games)] :
               loss_games \in {SelectSeq(result[2].games, LAMBDA g : ~g.win)} } : TRUE

grieftracker_cmd(riot_id, matches, puuid, tie) ==
    IF riot_id \notin GriefPlayers
    THEN Said("Player not found.")
    ELSE IF matches = <<>>
    THEN Said("No stored matches found.")
    ELSE CHOOSE reply \in
             { GriefReply(riot_id, result, tie) :
               result \in {evaluate_grieftracker(matches, puuid, 10, tie)} } : TRUE

InitCmd ==
    /\ clock = 0
    /\ callIn \in [riot_id : {"me#1", "ghost#1"}, matches : TrackerLists,
                   player_puuid : {"me"}]
    /\ callOut = <<"pending">>
    /\ BotIdle
    /\ MmrIdle
    /\ EstIdle

GriefTrackerCmd ==
    /\ callOut = <<"pending">>
    /\ \E tie \in Ties :
          callOut' = <<"reply", grieftracker_cmd(callIn.riot_id, callIn.matches,
                                                callIn.player_puuid, tie)>>
    /\ UNCHANGED <<clock, callIn, botVars, mmrVars, estVars>>

NextCmd == GriefTrackerCmd

SpecCmd == InitCmd /\ [][NextCmd]_vars

Replied == callOut[1] = "reply"

\* C39: when the matches stored for a known player hold no ranked-solo
\* match, the command answers 'No ranked solo/duo games found.' and no
\* report (evaluate_grieftracker having reported games_analyzed = 0).
C39_NoRankedGames ==
    (/\ Replied
     /\ callIn.riot_id = "me#1"
     /\ callIn.matches # <<>>
     /\ \A k \in 1..Len(callIn.matches) : callIn.matches[k].info.queueId # 420)
        => callOut[2] = [kind |-> "text", text |-> "No ranked solo/duo games found."]

-----------------------------------------------------------------------------
(* The topduos command (bot.py) *)

\* The positional call compute_top_duos(data, 5, 420) bound to the
\* parameters (data, queue_id, min_games) of analytics.compute_top_duos
TopDuosArgs == [queue_id |-> 5, min_games |-> 420]

topduos(is_locked, d) ==
    IF is_locked THEN Said("Update in progress.")
    ELSE IF DOMAIN d.players = {} THEN Said("No players added yet.")
    ELSE LET results == compute_top_duos(d, TopDuosArgs.queue_id,
                                         TopDuosArgs.min_games).out
         IN  IF results = <<>> THEN Said("No qualifying duos found.")
             \* the rows are tuples and the listing indexes them by name
             ELSE [kind |-> "raise", error |-> "TypeError"]

InitTopDuos ==
    /\ clock = 0
    /\ callIn \in [is_locked : BOOLEAN,
                   data : [players : {DuoPlayers, EmptyDict}, matches : DuoLists]]
    /\ callOut = <<"pending">>
    /\ BotIdle
    /\ MmrIdle
    /\ EstIdle

TopDuosCmd ==
    /\ callOut = <<"pending">>
    /\ callOut' = <<"topduos", topduos(callIn.is_locked, callIn.data)>>
    /\ UNCHANGED <<clock, callIn, botVars, mmrVars, estVars>>

NextTopDuos == TopDuosCmd

SpecTopDuos == InitTopDuos /\ [][NextTopDuos]_vars

TopDuosReplied == callOut[1] = "topduos"

\* The pairs of pool members with at least five ranked-solo games together
RankedPairs ==
    { pair \in { <<DuoIds[a], DuoIds[b]>> : a, b \in 1..Len(DuoIds) } :
        /\ DuoRank(pair[1]) < DuoRank(pair[2])
        /\ Cardinality(GamesTogether([data |-> callIn.data, queue_id |-> 420],
                                     pair[1], pair[2])) >= 5 }

\* C40: the topduos command ranks the pairs over queue 420 with a minimum
\* of 5 games: whenever some pair of tracked players has at least five
\* ranked-solo games together, the command does not answer 'No qualifying
\* duos found.'.
C40_RankedSoloMinFive ==
    (/\ TopDuosReplied
     /\ ~callIn.is_locked
     /\ DOMAIN callIn.data.players # {}
     /\ RankedPairs # {})
        => callOut[2] # Said("No qualifying duos found.")

=============================================================================
